---- MODULE Spec2Model ----
(***************************************************************************)
(* Cross-Language Code Converter: the pipeline convert_code (main.py), the *)
(* three line-oriented parsers (parsers/*.py), the node taxonomy           *)
(* (ast_module/universal_ast.py) and the generators                        *)
(* (generators/base_generator.py).                                         *)
(*                                                                         *)
(* A Python str is a sequence of one-character strings, so that regular    *)
(* expressions, strip/split/join and f-strings are modelled by what they   *)
(* do to the characters.  An IR node is a record whose field "type" is the *)
(* class name; a bare Python str held in a node field is the record        *)
(* [type |-> "str", value |-> text].                                       *)
(***************************************************************************)
EXTENDS Integers, Sequences, FiniteSets, TLC

VARIABLES pc, source_code, source_lang, target_lang, ast, output, error, calls,
          current_indent_level, generator_of, frames

\* the generator instances that outlive one step: the counter of each, the
\* instance each invocation renders on, and each invocation's open visits
render_vars == <<current_indent_level, generator_of, frames>>

vars == <<pc, source_code, source_lang, target_lang, ast, output, error, calls,
          current_indent_level, generator_of, frames>>

\* convert_code taken as one step per call keeps its generator in a local
\* variable of that step
NoInstance == current_indent_level = <<>> /\ generator_of = <<>> /\ frames = <<>>

\* ------------------------------------------------------------------ text

Lower == {"a","b","c","d","e","f","g","h","i","j","k","l","m",
          "n","o","p","q","r","s","t","u","v","w","x","y","z"}
Upper == {"A","B","C","D","E","F","G","H","I","J","K","L","M",
          "N","O","P","Q","R","S","T","U","V","W","X","Y","Z"}
Digit == {"0","1","2","3","4","5","6","7","8","9"}
\* regex \w
WordChar == Lower \cup Upper \cup Digit \cup {"_"}
\* regex \s, and the characters str.strip() removes
SpaceChar == {" ", "\t", "\n"}

\* s[i:] with i counted from 1
From(s, i) == SubSeq(s, i, Len(s))

\* the index after the longest run of characters of `set` that starts at i
RECURSIVE SpanWhile(_, _, _)
SpanWhile(s, i, set) ==
  IF i > Len(s) THEN i
  ELSE IF s[i] \notin set THEN i
  ELSE SpanWhile(s, i + 1, set)

\* the literal `lit` stands at index i of s
HasAt(s, i, lit) ==
  /\ i >= 1
  /\ i + Len(lit) - 1 <= Len(s)
  /\ SubSeq(s, i, i + Len(lit) - 1) = lit

\* str.find from index i: the first index >= i where `sub` stands, 0 when none
find(s, i, sub) ==
  LET at == {k \in i..(Len(s) - Len(sub) + 1) : HasAt(s, k, sub)}
  IN IF at = {} THEN 0 ELSE CHOOSE k \in at : \A j \in at : k <= j

\* the last index in i..j where `sub` stands, 0 when none
RECURSIVE rfind_from(_, _, _, _)
rfind_from(s, i, j, sub) ==
  IF j < i THEN 0
  ELSE IF HasAt(s, j, sub) THEN j
  ELSE rfind_from(s, i, j - 1, sub)

\* str.rfind: the last index where `sub` stands at or after i, 0 when none
rfind(s, i, sub) == rfind_from(s, i, Len(s), sub)

\* `sub in s`
contains(s, sub) == find(s, 1, sub) # 0

startswith(s, p) == HasAt(s, 1, p)
endswith(s, p) == Len(p) <= Len(s) /\ HasAt(s, Len(s) - Len(p) + 1, p)

lstrip(s) == From(s, SpanWhile(s, 1, SpaceChar))

RECURSIVE rstrip(_)
rstrip(s) ==
  IF s = <<>> THEN s
  ELSE IF s[Len(s)] \notin SpaceChar THEN s
  ELSE rstrip(SubSeq(s, 1, Len(s) - 1))

strip(s) == rstrip(lstrip(s))

\* s.count(c) for a one-character c
count(s, c) == Cardinality({j \in 1..Len(s) : s[j] = c})

\* s.split(sep): always at least one part
RECURSIVE split(_, _)
split(s, sep) ==
  LET k == find(s, 1, sep)
  IN IF k = 0 THEN <<s>>
     ELSE <<SubSeq(s, 1, k - 1)>> \o split(From(s, k + Len(sep)), sep)

\* s.split(sep, 1): at most two parts
split1(s, sep) ==
  LET k == find(s, 1, sep)
  IN IF k = 0 THEN <<s>>
     ELSE <<SubSeq(s, 1, k - 1), From(s, k + Len(sep))>>

\* s.split()[-1] of a text that is not all blank: its last run of non-blanks
last_word(s) ==
  LET t == rstrip(s)
      b == IF \E j \in 1..Len(t) : t[j] \in SpaceChar
           THEN CHOOSE j \in 1..Len(t) :
                  t[j] \in SpaceChar /\ \A k \in (j+1)..Len(t) : t[k] \notin SpaceChar
           ELSE 0
  IN From(t, b + 1)

\* sep.join(parts)
RECURSIVE join(_, _)
join(sep, parts) ==
  IF Len(parts) = 0 THEN <<>>
  ELSE IF Len(parts) = 1 THEN parts[1]
  ELSE parts[1] \o sep \o join(sep, Tail(parts))

\* [f(p) for p in parts]
RECURSIVE strip_each(_)
strip_each(parts) ==
  IF parts = <<>> THEN <<>> ELSE <<strip(parts[1])>> \o strip_each(Tail(parts))

\* [p for p in parts if p]
RECURSIVE drop_empty(_)
drop_empty(parts) ==
  IF parts = <<>> THEN <<>>
  ELSE (IF parts[1] = <<>> THEN <<>> ELSE <<parts[1]>>) \o drop_empty(Tail(parts))

RECURSIVE last_word_each(_)
last_word_each(parts) ==
  IF parts = <<>> THEN <<>> ELSE <<last_word(parts[1])>> \o last_word_each(Tail(parts))

\* re.fullmatch(r"-?\d+(\.\d+)?", s)
is_number(s) ==
  LET a == IF HasAt(s, 1, <<"-">>) THEN 2 ELSE 1
      b == SpanWhile(s, a, Digit)
      c == SpanWhile(s, b + 1, Digit)
  IN /\ b > a
     /\ \/ b = Len(s) + 1
        \/ HasAt(s, b, <<".">>) /\ c > b + 1 /\ c = Len(s) + 1

\* re.fullmatch(r"[a-zA-Z_]\w*", s)
is_identifier(s) ==
  /\ Len(s) >= 1
  /\ s[1] \in (Lower \cup Upper \cup {"_"})
  /\ \A j \in 2..Len(s) : s[j] \in WordChar

\* ------------------------------------------------------- node taxonomy

ProgramNode(statements) == [type |-> "ProgramNode", statements |-> statements]
FunctionNode(name, args, body) ==
  [type |-> "FunctionNode", name |-> name, args |-> args, body |-> body]
PrintNode(expression) == [type |-> "PrintNode", expression |-> expression]
MathOpNode(operator, left, right) ==
  [type |-> "MathOpNode", operator |-> operator, left |-> left, right |-> right]
VariableNode(name) == [type |-> "VariableNode", name |-> name]
StringLiteralNode(value) == [type |-> "StringLiteralNode", value |-> value]
NumberLiteralNode(value) == [type |-> "NumberLiteralNode", value |-> value]
PowerNode(base, exponent) == [type |-> "PowerNode", base |-> base, exponent |-> exponent]
ForLoopNode(iterator, iterable, body) ==
  [type |-> "ForLoopNode", iterator |-> iterator, iterable |-> iterable, body |-> body]
WhileLoopNode(condition, body) ==
  [type |-> "WhileLoopNode", condition |-> condition, body |-> body]
ComparisonNode(operator, left, right) ==
  [type |-> "ComparisonNode", operator |-> operator, left |-> left, right |-> right]
AssignmentNode(target, value) == [type |-> "AssignmentNode", target |-> target, value |-> value]
FunctionCallNode(name, args) == [type |-> "FunctionCallNode", name |-> name, args |-> args]

\* a Python str where a node may stand (ForLoopNode.iterable of the brace parsers)
Str(text) == [type |-> "str", value |-> text]

\* isinstance(node, Node): the classes of universal_ast.py, and OtherNode
NodeTypes == {"OtherNode",
              "ProgramNode", "FunctionNode", "PrintNode", "MathOpNode", "VariableNode",
              "StringLiteralNode", "NumberLiteralNode", "PowerNode", "ForLoopNode",
              "WhileLoopNode", "ComparisonNode", "AssignmentNode", "FunctionCallNode"}

\* an instance of a Node subclass that universal_ast.py does not define: it
\* inherits Node.__repr__ and has an empty __dict__
OtherNode == [type |-> "OtherNode"]

\* the value of `ast` before a parser has returned
NoNode == [type |-> "None"]

\* ------------------------------------------------- regular expressions
\* Each pattern is used with re.match on a stripped line: anchored at the
\* start, free at the end.  A match is [ok |-> TRUE, g1 |-> ..., ...].

NoMatch == [ok |-> FALSE]

\* the literal words of the patterns and of the generated text
kw == [def |-> <<"d","e","f">>,
       for |-> <<"f","o","r">>,
       in |-> <<"i","n">>,
       while |-> <<"w","h","i","l","e">>,
       print |-> <<"p","r","i","n","t">>,
       int |-> <<"i","n","t">>,
       void |-> <<"v","o","i","d">>,
       String |-> <<"S","t","r","i","n","g">>,
       string |-> <<"s","t","r","i","n","g">>,
       public |-> <<"p","u","b","l","i","c">>,
       static |-> <<"s","t","a","t","i","c">>,
       println |-> <<"S","y","s","t","e","m",".","o","u","t",".","p","r","i","n","t","l","n">>,
       cout |-> <<"c","o","u","t">>,
       std |-> <<"s","t","d",":",":">>,
       pow |-> <<"p","o","w">>,
       Math_pow |-> <<"M","a","t","h",".","p","o","w">>,
       range |-> <<"r","a","n","g","e","(">>,
       include |-> <<"#","i","n","c","l","u","d","e">>,
       using |-> <<"u","s","i","n","g"," ","n","a","m","e","s","p","a","c","e">>]

\* (?:kw\s+)? at p: the index after it when it is there, p when it is not
Optional(line, p, word) ==
  LET a == SpanWhile(line, p + Len(word), SpaceChar)
  IN IF HasAt(line, p, word) /\ a > p + Len(word) THEN a ELSE p

\* (.+?)\s*: from index c, lazily: the group ends before the blanks that
\* precede the first ":" after its first character
LazyUntil(line, c, term) ==
  LET k == find(line, c + 1, term)
      e == IF k = 0 THEN 0
           ELSE CHOOSE j \in (c+1)..k :
                  /\ \A m \in j..(k-1) : line[m] \in SpaceChar
                  /\ \A i \in (c+1)..(j-1) : \E m \in i..(k-1) : line[m] \notin SpaceChar
  IN IF c <= Len(line) /\ k > 0 THEN [ok |-> TRUE, g1 |-> SubSeq(line, c, e - 1)] ELSE NoMatch

\* (\w+)\s*\(([^)]*)\)\s*<term> from index p
FuncTail(line, p, term) ==
  LET a == SpanWhile(line, p, WordChar)
      b == SpanWhile(line, a, SpaceChar)
      c == IF HasAt(line, b, <<"(">>) THEN find(line, b + 1, <<")">>) ELSE 0
      d == SpanWhile(line, c + 1, SpaceChar)
  IN IF a > p /\ c > 0 /\ HasAt(line, d, term)
     THEN [ok |-> TRUE, g1 |-> SubSeq(line, p, a - 1), g2 |-> SubSeq(line, b + 1, c - 1)]
     ELSE NoMatch

\* (\w+)\s*=\s*(.+) from index p
AssignTail(line, p) ==
  LET a == SpanWhile(line, p, WordChar)
      b == SpanWhile(line, a, SpaceChar)
      c == SpanWhile(line, b + 1, SpaceChar)
  IN IF a > p /\ HasAt(line, b, <<"=">>) /\ c <= Len(line)
     THEN [ok |-> TRUE, g1 |-> SubSeq(line, p, a - 1), g2 |-> From(line, c)]
     ELSE NoMatch

\* python_parser.FUNCTION_CALL_REGEX  (\w+)\s*\((.*?)\)
PY_FUNCTION_CALL_REGEX(line) ==
  LET a == SpanWhile(line, 1, WordChar)
      b == SpanWhile(line, a, SpaceChar)
      c == IF HasAt(line, b, <<"(">>) THEN find(line, b + 1, <<")">>) ELSE 0
  IN IF a > 1 /\ c > 0
     THEN [ok |-> TRUE, g1 |-> SubSeq(line, 1, a - 1), g2 |-> SubSeq(line, b + 1, c - 1)]
     ELSE NoMatch

\* python_parser.ASSIGNMENT_REGEX  (\w+)\s*=\s*(.+)
PY_ASSIGNMENT_REGEX(line) == AssignTail(line, 1)

\* python_parser.FUNC_DEF_REGEX  def\s+(\w+)\s*\(([^)]*)\)\s*:
PY_FUNC_DEF_REGEX(line) ==
  LET p == Optional(line, 1, kw.def)
  IN IF p > 1 THEN FuncTail(line, p, <<":">>) ELSE NoMatch

\* python_parser.FOR_LOOP_REGEX  for\s+(\w+)\s+in\s+(.+?)\s*:
PY_FOR_LOOP_REGEX(line) ==
  LET p == Optional(line, 1, kw.for)
      a == SpanWhile(line, p, WordChar)
      b == SpanWhile(line, a, SpaceChar)
      c == Optional(line, b, kw.in)
      m == LazyUntil(line, c, <<":">>)
  IN IF p > 1 /\ a > p /\ b > a /\ c > b /\ m.ok
     THEN [ok |-> TRUE, g1 |-> SubSeq(line, p, a - 1), g2 |-> m.g1]
     ELSE NoMatch

\* python_parser.WHILE_LOOP_REGEX  while\s+(.+?)\s*:
PY_WHILE_LOOP_REGEX(line) ==
  LET p == Optional(line, 1, kw.while)
  IN IF p > 1 THEN LazyUntil(line, p, <<":">>) ELSE NoMatch

\* PRINT_REGEX of python_parser and java_parser:  <kw>\s*\((.*)\)
PrintCall(line, word) ==
  LET b == SpanWhile(line, Len(word) + 1, SpaceChar)
      c == IF HasAt(line, b, <<"(">>) THEN rfind(line, b + 1, <<")">>) ELSE 0
  IN IF HasAt(line, 1, word) /\ c > 0
     THEN [ok |-> TRUE, g1 |-> SubSeq(line, b + 1, c - 1)]
     ELSE NoMatch

PY_PRINT_REGEX(line) == PrintCall(line, kw.print)

JAVA_PRINT_REGEX(line) == PrintCall(line, kw.println)

\* ASSIGNMENT_REGEX of java_parser and cpp_parser:  (?:int\s+)?(\w+)\s*=\s*(.+)
BRACE_ASSIGNMENT_REGEX(line) ==
  LET p == Optional(line, 1, kw.int)
  IN IF AssignTail(line, p).ok THEN AssignTail(line, p) ELSE AssignTail(line, 1)

\* (?:void|int|String)\s+ at p: the index after it, 0 when it is not there
TypeAt(line, p, types) ==
  IF \E t \in types : Optional(line, p, t) > p
  THEN Optional(line, p, CHOOSE t \in types : Optional(line, p, t) > p)
  ELSE 0

\* java_parser.FUNC_DEF_REGEX
\*   (?:public\s+)?(?:static\s+)?(?:void|int|String)\s+(\w+)\s*\(([^)]*)\)\s*\{
JAVA_FUNC_DEF_REGEX(line) ==
  LET p == Optional(line, Optional(line, 1, kw.public), kw.static)
      q == TypeAt(line, p, {kw.void, kw.int, kw.String})
  IN IF q > 0 THEN FuncTail(line, q, <<"{">>) ELSE NoMatch

\* cpp_parser.FUNC_DEF_REGEX  (?:void|int|string)\s+(\w+)\s*\(([^)]*)\)\s*\{
CPP_FUNC_DEF_REGEX(line) ==
  LET q == TypeAt(line, 1, {kw.void, kw.int, kw.string})
  IN IF q > 0 THEN FuncTail(line, q, <<"{">>) ELSE NoMatch

\* \s*([^;]+); from index p: [ok, from, to, next] with the group line[from..to]
\* and next the index after the ";"
UntilSemi(line, p) ==
  LET e == SpanWhile(line, p, SpaceChar)
      f == find(line, p, <<";">>)
  IN IF f > p
     THEN [ok |-> TRUE, g |-> SubSeq(line, IF e < f THEN e ELSE f - 1, f - 1), next |-> f + 1]
     ELSE [ok |-> FALSE, g |-> <<>>, next |-> 0]

\* the alternation (<|<=|>|>=) at index h: the first alternative that lets
\* the rest of the pattern match.  "<" and ">" stand before "<=" and ">=",
\* and what follows them, \s*([^;]+), accepts the "=" as well
CmpAt(line, h) ==
  IF HasAt(line, h, <<"<">>) THEN <<"<">>
  ELSE IF HasAt(line, h, <<">">>) THEN <<">">>
  ELSE <<>>

\* the alternation (\+\+|--|\+=|-=) at index m
StepAt(line, m) ==
  IF m + 1 <= Len(line)
     /\ SubSeq(line, m, m + 1) \in {<<"+","+">>, <<"-","-">>, <<"+","=">>, <<"-","=">>}
  THEN SubSeq(line, m, m + 1)
  ELSE <<>>

\* (\w+)\s*=\s*([^;]+);\s*\1\s*(<|<=|>|>=)\s*([^;]+);\s*\1\s*(\+\+|--|\+=|-=)\s*([^)]*)\)\s*\{
ForTail(line, p) ==
  LET c == SpanWhile(line, p, WordChar)
      it == SubSeq(line, p, c - 1)
      d == SpanWhile(line, c, SpaceChar)
      s1 == UntilSemi(line, d + 1)
      g == SpanWhile(line, s1.next, SpaceChar)
      h == SpanWhile(line, g + Len(it), SpaceChar)
      op == CmpAt(line, h)
      s2 == UntilSemi(line, h + 1)
      l == SpanWhile(line, s2.next, SpaceChar)
      m == SpanWhile(line, l + Len(it), SpaceChar)
      st == StepAt(line, m)
      n == SpanWhile(line, m + 2, SpaceChar)
      o == find(line, n, <<")">>)
      q == SpanWhile(line, o + 1, SpaceChar)
  IN IF /\ c > p
        /\ HasAt(line, d, <<"=">>)
        /\ s1.ok
        /\ HasAt(line, g, it)
        /\ op # <<>>
        /\ s2.ok
        /\ HasAt(line, l, it)
        /\ st # <<>>
        /\ o > 0
        /\ HasAt(line, q, <<"{">>)
     THEN [ok |-> TRUE, g1 |-> it, g2 |-> s1.g, g3 |-> op, g4 |-> s2.g, g5 |-> st,
           g6 |-> SubSeq(line, n, o - 1)]
     ELSE NoMatch

\* FOR_LOOP_REGEX of java_parser and cpp_parser:  for\s*\(\s*(?:int\s+)?<ForTail>
BRACE_FOR_LOOP_REGEX(line) ==
  LET a == SpanWhile(line, 4, SpaceChar)
      b == SpanWhile(line, a + 1, SpaceChar)
      p == Optional(line, b, kw.int)
  IN IF HasAt(line, 1, kw.for) /\ HasAt(line, a, <<"(">>)
     THEN IF ForTail(line, p).ok THEN ForTail(line, p) ELSE ForTail(line, b)
     ELSE NoMatch

\* WHILE_LOOP_REGEX of java_parser and cpp_parser:  while\s*\((.*?)\)\s*\{
BRACE_WHILE_LOOP_REGEX(line) ==
  LET a == SpanWhile(line, 6, SpaceChar)
      Closes(c) == line[c] = ")" /\ HasAt(line, SpanWhile(line, c + 1, SpaceChar), <<"{">>)
  IN IF /\ HasAt(line, 1, kw.while)
        /\ HasAt(line, a, <<"(">>)
        /\ \E c \in (a+1)..Len(line) : Closes(c)
     THEN [ok |-> TRUE,
           g1 |-> SubSeq(line, a + 1,
                    (CHOOSE c \in (a+1)..Len(line) :
                       Closes(c) /\ \A k \in (a+1)..(c-1) : ~Closes(k)) - 1)]
     ELSE NoMatch

\* cpp_parser.PRINT_REGEX  (?:std::)?cout\s*<<\s*([^;]+)(?:\s*<<\s*endl)?
\* the greedy group runs to the first ";" (or the end of the line), so the
\* optional tail always matches empty
CPP_PRINT_REGEX(line) ==
  LET p == IF HasAt(line, 1, kw.std) THEN Len(kw.std) + 1 ELSE 1
      a == SpanWhile(line, p + Len(kw.cout), SpaceChar)
      b == SpanWhile(line, a + 2, SpaceChar)
      f == find(line, a + 2, <<";">>)
      e == IF f = 0 THEN Len(line) + 1 ELSE f
  IN IF HasAt(line, p, kw.cout) /\ HasAt(line, a, <<"<","<">>) /\ e > a + 2
     THEN [ok |-> TRUE, g1 |-> SubSeq(line, IF b < e THEN b ELSE e - 1, e - 1)]
     ELSE NoMatch

\* POW_REGEX with re.fullmatch:  <kw>\s*\(([^,]+)\s*,\s*([^)]+)\)
POW_REGEX(s, word) ==
  LET a == SpanWhile(s, Len(word) + 1, SpaceChar)
      c == IF HasAt(s, a, <<"(">>) THEN find(s, a + 1, <<",">>) ELSE 0
  IN IF /\ HasAt(s, 1, word)
        /\ c > a + 1
        /\ Len(s) - 1 >= c + 1
        /\ s[Len(s)] = ")"
        /\ \A j \in (c+1)..(Len(s)-1) : s[j] # ")"
     THEN [ok |-> TRUE, g1 |-> SubSeq(s, a + 1, c - 1), g2 |-> SubSeq(s, c + 1, Len(s) - 1)]
     ELSE NoMatch

\* ---------------------------------------------------------------- parsers

SourceLangs == {"python", "java", "cpp"}

\* the comparison operators in the order _parse_expression tries them
ComparisonOps == <<<<"=","=">>, <<"!","=">>, <<"<","=">>, <<">","=">>, <<"<">>, <<">">>>>

Spaced(op) == <<" ">> \o op \o <<" ">>

\* s.replace(old, new)
RECURSIVE replace(_, _, _)
replace(s, old, new) ==
  LET k == find(s, 1, old)
  IN IF k = 0 THEN s
     ELSE SubSeq(s, 1, k - 1) \o new \o replace(From(s, k + Len(old)), old, new)

\* _parse_string_literal as the other front ends read a literal: the quotes
\* removed, the interior kept as written
parse_string_literal_verbatim(expr_str) ==
  IF ~(startswith(expr_str, <<"\"">>) /\ endswith(expr_str, <<"\"">>))
  THEN expr_str
  ELSE SubSeq(expr_str, 2, Len(expr_str) - 1)

\* cpp_parser._parse_string_literal: the escape_map entries are applied one
\* after the other, in the order the dict holds them
parse_string_literal(expr_str) ==
  IF ~(startswith(expr_str, <<"\"">>) /\ endswith(expr_str, <<"\"">>))
  THEN expr_str
  ELSE LET content == SubSeq(expr_str, 2, Len(expr_str) - 1)
           r1 == replace(content, <<"\\", "\"">>, <<"\"">>)
           r2 == replace(r1, <<"\\", "n">>, <<"\n">>)
           r3 == replace(r2, <<"\\", "t">>, <<"\t">>)
       IN replace(r3, <<"\\", "\\">>, <<"\\">>)

\* the spelling of the power call in each source language
PowName(lang) == IF lang = "java" THEN kw.Math_pow ELSE kw.pow

\* the quoted-literal test of each _parse_expression
IsQuoted(lang, s) ==
  \/ startswith(s, <<"\"">>) /\ endswith(s, <<"\"">>)
  \/ lang # "cpp" /\ startswith(s, <<"'">>) /\ endswith(s, <<"'">>)

\* _parse_expression of python_parser, java_parser and cpp_parser
RECURSIVE parse_expression(_, _)
parse_expression(lang, expr_str) ==
  LET s == strip(expr_str)
      hits == {k \in 1..Len(ComparisonOps) : contains(s, Spaced(ComparisonOps[k]))}
      op == ComparisonOps[CHOOSE k \in hits : \A j \in hits : k <= j]
      cmp == split1(s, Spaced(op))
      pow_match == POW_REGEX(s, PowName(lang))
      plus == split1(s, <<" ","+"," ">>)
  IN IF hits # {}
     THEN ComparisonNode(op, parse_expression(lang, strip(cmp[1])),
                             parse_expression(lang, strip(cmp[2])))
     ELSE IF pow_match.ok
     THEN PowerNode(parse_expression(lang, strip(pow_match.g1)),
                    parse_expression(lang, strip(pow_match.g2)))
     ELSE IF /\ contains(s, <<" ","+"," ">>)
             /\ ~startswith(s, PowName(lang) \o <<"(">>)
             /\ lang = "python" =>
                  ~(count(plus[1], "\"") % 2 # 0 \/ count(plus[1], "'") % 2 # 0)
     THEN MathOpNode(<<"+">>, parse_expression(lang, strip(plus[1])),
                              parse_expression(lang, strip(plus[2])))
     ELSE IF IsQuoted(lang, s)
     THEN StringLiteralNode(IF lang = "cpp" THEN parse_string_literal(s)
                            ELSE SubSeq(s, 2, Len(s) - 1))
     ELSE IF is_number(s) THEN NumberLiteralNode(s)
     ELSE VariableNode(s)

\* len(line) - len(line.lstrip())
indent_of(line) == Len(line) - Len(lstrip(line))

\* the while loop of _get_indented_block from index i (lines counted from 1)
RECURSIVE block_scan(_, _, _, _)
block_scan(lines, i, start_idx, base_indent) ==
  IF i > Len(lines) THEN [block_lines |-> <<>>, i |-> i]
  ELSE IF strip(lines[i]) = <<>> THEN block_scan(lines, i + 1, start_idx, base_indent)
  ELSE IF indent_of(lines[i]) <= base_indent /\ i > start_idx
  THEN [block_lines |-> <<>>, i |-> i]
  ELSE LET r == block_scan(lines, i + 1, start_idx, base_indent)
       IN [block_lines |-> <<lines[i]>> \o r.block_lines, i |-> r.i]

\* _get_indented_block (the same function in the three parsers)
get_indented_block(lines, start_idx, base_indent) ==
  block_scan(lines, start_idx, start_idx, base_indent)

\* _convert_java_for_to_range and _convert_cpp_for_to_range (the same code)
convert_for_to_range(start0, end0, operator, step_op, step_val0) ==
  LET swap == operator = <<">">>
      start == IF swap THEN strip(end0) ELSE strip(start0)
      end == IF operator = <<"<","=">> THEN strip(end0) \o <<" ","+"," ","1">>
             ELSE IF swap THEN strip(start0) ELSE strip(end0)
      step_val == IF swap /\ step_op = <<"+","+">> THEN <<"-","1">>
                  ELSE IF swap /\ step_op = <<"-","-">> THEN <<"1">>
                  ELSE step_val0
      step == IF step_op = <<"+","+">> THEN <<"1">>
              ELSE IF step_op = <<"-","-">> THEN <<"-","1">>
              ELSE IF step_op = <<"+","=">> THEN step_val
              ELSE <<"-">> \o step_val
  IN kw.range \o start \o <<","," ">> \o end \o <<","," ">> \o step \o <<")">>

\* code.strip().split('\n')
code_lines(code) == split(strip(code), <<"\n">>)

RECURSIVE parse_python(_), py_statements(_, _)

\* the while loop of parse_python from line i
py_statements(lines, i) ==
  IF i > Len(lines) THEN <<>>
  ELSE
    LET line == strip(lines[i])
        blk == get_indented_block(lines, i + 1, indent_of(lines[i]))
        body == parse_python(join(<<"\n">>, blk.block_lines)).statements
        func_call_match == PY_FUNCTION_CALL_REGEX(line)
        assign_match == PY_ASSIGNMENT_REGEX(line)
        func_match == PY_FUNC_DEF_REGEX(line)
        for_match == PY_FOR_LOOP_REGEX(line)
        while_match == PY_WHILE_LOOP_REGEX(line)
        print_match == PY_PRINT_REGEX(line)
    IN IF line = <<>> \/ startswith(line, <<"#">>) THEN py_statements(lines, i + 1)
       ELSE IF func_call_match.ok
       THEN <<FunctionNode(func_call_match.g1,
                           IF func_call_match.g2 # <<>>
                           THEN strip_each(split(func_call_match.g2, <<",">>))
                           ELSE <<>>,
                           <<>>)>> \o py_statements(lines, i + 1)
       ELSE IF assign_match.ok
       THEN <<AssignmentNode(VariableNode(assign_match.g1),
                             parse_expression("python", assign_match.g2))>>
            \o py_statements(lines, i + 1)
       ELSE IF func_match.ok
       THEN <<FunctionNode(func_match.g1,
                           drop_empty(strip_each(split(func_match.g2, <<",">>))),
                           body)>> \o py_statements(lines, blk.i)
       ELSE IF for_match.ok
       THEN <<ForLoopNode(for_match.g1, parse_expression("python", for_match.g2), body)>>
            \o py_statements(lines, blk.i)
       ELSE IF while_match.ok
       THEN <<WhileLoopNode(parse_expression("python", while_match.g1), body)>>
            \o py_statements(lines, blk.i)
       ELSE IF print_match.ok
       THEN <<PrintNode(parse_expression("python", strip(print_match.g1)))>>
            \o py_statements(lines, i + 1)
       ELSE py_statements(lines, i + 1)

parse_python(code) == ProgramNode(py_statements(code_lines(code), 1))

RECURSIVE parse_java(_), java_statements(_, _)

\* the while loop of parse_java from line i
java_statements(lines, i) ==
  IF i > Len(lines) THEN <<>>
  ELSE
    LET line == strip(lines[i])
        blk == get_indented_block(lines, i + 1, indent_of(lines[i]))
        body == parse_java(join(<<"\n">>, blk.block_lines)).statements
        assign_match == BRACE_ASSIGNMENT_REGEX(line)
        func_match == JAVA_FUNC_DEF_REGEX(line)
        for_match == BRACE_FOR_LOOP_REGEX(line)
        while_match == BRACE_WHILE_LOOP_REGEX(line)
        print_match == JAVA_PRINT_REGEX(line)
    IN IF line = <<>> \/ startswith(line, <<"/","/">>) THEN java_statements(lines, i + 1)
       ELSE IF assign_match.ok
       THEN <<AssignmentNode(VariableNode(assign_match.g1),
                             parse_expression("java", assign_match.g2))>>
            \o java_statements(lines, i + 1)
       ELSE IF func_match.ok
       THEN <<FunctionNode(func_match.g1,
                           last_word_each(drop_empty(strip_each(split(func_match.g2, <<",">>)))),
                           body)>> \o java_statements(lines, blk.i)
       ELSE IF for_match.ok
       THEN <<ForLoopNode(for_match.g1,
                          Str(convert_for_to_range(for_match.g2, for_match.g4, for_match.g3,
                                                   for_match.g5, for_match.g6)),
                          body)>> \o java_statements(lines, blk.i)
       ELSE IF while_match.ok
       THEN <<WhileLoopNode(parse_expression("java", while_match.g1), body)>>
            \o java_statements(lines, blk.i)
       ELSE IF print_match.ok
       THEN <<PrintNode(parse_expression("java", strip(print_match.g1)))>>
            \o java_statements(lines, i + 1)
       ELSE java_statements(lines, i + 1)

parse_java(code) == ProgramNode(java_statements(code_lines(code), 1))

\* the expression of a cout line: the parts between "<<" joined by " + "
cout_expression(expression_str) ==
  IF contains(expression_str, <<"<","<">>)
  THEN parse_expression("cpp", join(<<" ","+"," ">>, strip_each(split(expression_str, <<"<","<">>))))
  ELSE parse_expression("cpp", expression_str)

RECURSIVE parse_cpp(_), cpp_statements(_, _)

\* the while loop of parse_cpp from line i
cpp_statements(lines, i) ==
  IF i > Len(lines) THEN <<>>
  ELSE
    LET line == strip(lines[i])
        blk == get_indented_block(lines, i + 1, indent_of(lines[i]))
        body == parse_cpp(join(<<"\n">>, blk.block_lines)).statements
        assign_match == BRACE_ASSIGNMENT_REGEX(line)
        func_match == CPP_FUNC_DEF_REGEX(line)
        for_match == BRACE_FOR_LOOP_REGEX(line)
        while_match == BRACE_WHILE_LOOP_REGEX(line)
        print_match == CPP_PRINT_REGEX(line)
    IN IF line = <<>> \/ startswith(line, <<"/","/">>) THEN cpp_statements(lines, i + 1)
       ELSE IF startswith(line, kw.include) \/ startswith(line, kw.using)
       THEN cpp_statements(lines, i + 1)
       ELSE IF assign_match.ok
       THEN <<AssignmentNode(VariableNode(assign_match.g1),
                             parse_expression("cpp", assign_match.g2))>>
            \o cpp_statements(lines, i + 1)
       ELSE IF func_match.ok
       THEN <<FunctionNode(func_match.g1,
                           last_word_each(drop_empty(strip_each(split(func_match.g2, <<",">>)))),
                           body)>> \o cpp_statements(lines, blk.i)
       ELSE IF for_match.ok
       THEN <<ForLoopNode(for_match.g1,
                          Str(convert_for_to_range(for_match.g2, for_match.g4, for_match.g3,
                                                   for_match.g5, for_match.g6)),
                          body)>> \o cpp_statements(lines, blk.i)
       ELSE IF while_match.ok
       THEN <<WhileLoopNode(parse_expression("cpp", while_match.g1), body)>>
            \o cpp_statements(lines, blk.i)
       ELSE IF print_match.ok
       THEN <<PrintNode(cout_expression(strip(print_match.g1)))>>
            \o cpp_statements(lines, i + 1)
       ELSE cpp_statements(lines, i + 1)

parse_cpp(code) == ProgramNode(cpp_statements(code_lines(code), 1))

\* ------------------------------------------------------------ str / repr

\* repr of a Python str: single quotes, unless the text holds a single quote
\* and no double quote
RECURSIVE escape_chars(_, _)
escape_chars(s, q) ==
  IF s = <<>> THEN <<>>
  ELSE (IF s[1] = "\\" THEN <<"\\", "\\">>
        ELSE IF s[1] = "\n" THEN <<"\\", "n">>
        ELSE IF s[1] = "\t" THEN <<"\\", "t">>
        ELSE IF s[1] = q THEN <<"\\", q>>
        ELSE <<s[1]>>) \o escape_chars(Tail(s), q)

repr_str(s) ==
  LET q == IF count(s, "'") > 0 /\ count(s, "\"") = 0 THEN "\"" ELSE "'"
  IN <<q>> \o escape_chars(s, q) \o <<q>>

RECURSIVE repr_str_each(_)
repr_str_each(parts) ==
  IF parts = <<>> THEN <<>> ELSE <<repr_str(parts[1])>> \o repr_str_each(Tail(parts))

\* "{'k': v}" of one dict entry list: keys and already rendered values
RECURSIVE dict_items(_, _)
dict_items(keys, values) ==
  IF keys = <<>> THEN <<>>
  ELSE <<(<<"'">> \o keys[1] \o <<"'",":"," ">> \o values[1])>> \o dict_items(Tail(keys), Tail(values))

dict_repr(keys, values) == <<"{">> \o join(<<","," ">>, dict_items(keys, values)) \o <<"}">>

list_repr(items) == <<"[">> \o join(<<","," ">>, items) \o <<"]">>

cls_repr(name, keys, values) == name \o <<"(">> \o dict_repr(keys, values) \o <<")">>

RECURSIVE repr(_), repr_each(_)

\* [repr(x) for x in items]; a str item is shown by its str repr
repr_each(items) ==
  IF items = <<>> THEN <<>> ELSE <<repr(items[1])>> \o repr_each(Tail(items))

\* Node.__repr__ (and ForLoopNode.__repr__): the class name and the __dict__
repr(node) ==
  IF node.type = "str" THEN repr_str(node.value)
  ELSE IF node.type = "ProgramNode"
  THEN cls_repr(<<"P","r","o","g","r","a","m","N","o","d","e">>, <<<<"s","t","a","t","e","m","e","n","t","s">>>>, <<list_repr(repr_each(node.statements))>>)
  ELSE IF node.type = "FunctionNode"
  THEN cls_repr(<<"F","u","n","c","t","i","o","n","N","o","d","e">>, <<<<"n","a","m","e">>, <<"a","r","g","s">>, <<"b","o","d","y">>>>,
                <<repr_str(node.name), list_repr(repr_str_each(node.args)),
                  list_repr(repr_each(node.body))>>)
  ELSE IF node.type = "PrintNode"
  THEN cls_repr(<<"P","r","i","n","t","N","o","d","e">>, <<<<"e","x","p","r","e","s","s","i","o","n">>>>, <<repr(node.expression)>>)
  ELSE IF node.type = "MathOpNode"
  THEN cls_repr(<<"M","a","t","h","O","p","N","o","d","e">>, <<<<"o","p","e","r","a","t","o","r">>, <<"l","e","f","t">>, <<"r","i","g","h","t">>>>,
                <<repr_str(node.operator), repr(node.left), repr(node.right)>>)
  ELSE IF node.type = "VariableNode"
  THEN cls_repr(<<"V","a","r","i","a","b","l","e","N","o","d","e">>, <<<<"n","a","m","e">>>>, <<repr_str(node.name)>>)
  ELSE IF node.type = "StringLiteralNode"
  THEN cls_repr(<<"S","t","r","i","n","g","L","i","t","e","r","a","l","N","o","d","e">>, <<<<"v","a","l","u","e">>>>, <<repr_str(node.value)>>)
  ELSE IF node.type = "NumberLiteralNode"
  THEN cls_repr(<<"N","u","m","b","e","r","L","i","t","e","r","a","l","N","o","d","e">>, <<<<"v","a","l","u","e">>>>, <<repr_str(node.value)>>)
  ELSE IF node.type = "PowerNode"
  THEN cls_repr(<<"P","o","w","e","r","N","o","d","e">>, <<<<"b","a","s","e">>, <<"e","x","p","o","n","e","n","t">>>>, <<repr(node.base), repr(node.exponent)>>)
  ELSE IF node.type = "ForLoopNode"
  THEN <<"F","o","r","L","o","o","p","N","o","d","e","(","i","t","e","r","a","t","o","r","=","'">> \o node.iterator \o <<"'",","," ","i","t","e","r","a","b","l","e","=","'">>
       \o (IF node.iterable.type = "str" THEN node.iterable.value ELSE repr(node.iterable))
       \o <<"'",","," ","b","o","d","y","=">> \o list_repr(repr_each(node.body)) \o <<")">>
  ELSE IF node.type = "WhileLoopNode"
  THEN cls_repr(<<"W","h","i","l","e","L","o","o","p","N","o","d","e">>, <<<<"c","o","n","d","i","t","i","o","n">>, <<"b","o","d","y">>>>,
                <<repr(node.condition), list_repr(repr_each(node.body))>>)
  ELSE IF node.type = "ComparisonNode"
  THEN cls_repr(<<"C","o","m","p","a","r","i","s","o","n","N","o","d","e">>, <<<<"o","p","e","r","a","t","o","r">>, <<"l","e","f","t">>, <<"r","i","g","h","t">>>>,
                <<repr_str(node.operator), repr(node.left), repr(node.right)>>)
  ELSE IF node.type = "AssignmentNode"
  THEN cls_repr(<<"A","s","s","i","g","n","m","e","n","t","N","o","d","e">>, <<<<"t","a","r","g","e","t">>, <<"v","a","l","u","e">>>>, <<repr(node.target), repr(node.value)>>)
  ELSE IF node.type = "OtherNode" THEN cls_repr(<<"O","t","h","e","r","N","o","d","e">>, <<>>, <<>>)
  ELSE cls_repr(<<"F","u","n","c","t","i","o","n","C","a","l","l","N","o","d","e">>, <<<<"n","a","m","e">>, <<"a","r","g","s">>>>,
                <<repr_str(node.name), list_repr(repr_each(node.args))>>)

\* str(x): a str is itself, a node is its __repr__
str(x) == IF x.type = "str" THEN x.value ELSE repr(x)

\* ------------------------------------------------------------- generators
\* A BaseGenerator or JavaGenerator method is modelled as a function of the
\* node and of the instance's current_indent_level on entry; it yields the
\* text returned and the current_indent_level on exit.

\* BaseGenerator.__init__: indent_char='    '
indent_char == <<" "," "," "," ">>

\* BaseGenerator.__init__: initial_indent_level=0
initial_indent_level == 0

\* str * int
RECURSIVE times(_, _)
times(s, n) == IF n <= 0 THEN <<>> ELSE s \o times(s, n - 1)

\* BaseGenerator._make_indent
make_indent(level) == times(indent_char, level)

Out(text, level) == [text |-> text, level |-> level]

\* the classes for which each generator class has a visit_<Class> method
BaseRules == {"ProgramNode", "VariableNode", "StringLiteralNode", "NumberLiteralNode",
              "MathOpNode", "ComparisonNode", "AssignmentNode"}
JavaRules == BaseRules \cup {"FunctionNode", "PrintNode", "PowerNode", "ForLoopNode",
                             "WhileLoopNode"}

RECURSIVE visit(_, _, _), visit_all(_, _, _)

\* [self.visit(stmt) for stmt in stmts], one after the other on one instance
visit_all(g, stmts, level) ==
  IF stmts = <<>> THEN [texts |-> <<>>, level |-> level]
  ELSE LET first == visit(g, stmts[1], level)
           rest == visit_all(g, Tail(stmts), first.level)
       IN [texts |-> <<first.text>> \o rest.texts, level |-> rest.level]

\* BaseGenerator.generic_visit
generic_visit(node, level) == Out(str(node), level)

\* BaseGenerator.visit_ProgramNode
visit_ProgramNode(g, node, level) ==
  LET r == visit_all(g, node.statements, level)
  IN Out(join(<<"\n">>, r.texts), r.level)

\* BaseGenerator.visit_VariableNode
visit_VariableNode(node, level) == Out(node.name, level)

\* BaseGenerator.visit_StringLiteralNode
visit_StringLiteralNode(node, level) == Out(<<"\"">> \o node.value \o <<"\"">>, level)

\* BaseGenerator.visit_NumberLiteralNode
visit_NumberLiteralNode(node, level) == Out(node.value, level)

\* BaseGenerator.visit_MathOpNode and visit_ComparisonNode (the same body)
visit_MathOpNode(g, node, level) ==
  LET left_code == visit(g, node.left, level)
      right_code == visit(g, node.right, left_code.level)
  IN Out(left_code.text \o <<" ">> \o node.operator \o <<" ">> \o right_code.text,
         right_code.level)

\* BaseGenerator.visit_AssignmentNode, and JavaGenerator.visit_AssignmentNode
\* which writes "int " before the target
visit_AssignmentNode(g, node, level) ==
  LET target == visit(g, node.target, level)
      value == visit(g, node.value, target.level)
  IN Out(make_indent(value.level) \o (IF g = "java" THEN <<"i","n","t"," ">> ELSE <<>>)
           \o target.text \o <<" ","="," ">> \o value.text,
         value.level)

RECURSIVE with_semicolon(_)
with_semicolon(texts) ==
  IF texts = <<>> THEN <<>> ELSE <<texts[1] \o <<";">>>> \o with_semicolon(Tail(texts))

RECURSIVE prefix_each(_, _)
prefix_each(p, texts) ==
  IF texts = <<>> THEN <<>> ELSE <<p \o texts[1]>> \o prefix_each(p, Tail(texts))

\* pick as a generator without the partition would have it: every statement
\* stays where it stands, among the method definitions
pick_in_place(stmts, texts, want) == IF want THEN texts ELSE <<>>

\* the rendered texts of the statements that are (want) or are not (~want)
\* FunctionNode, in statement order
RECURSIVE pick(_, _, _)
pick(stmts, texts, want) ==
  IF stmts = <<>> THEN <<>>
  ELSE (IF (stmts[1].type = "FunctionNode") = want THEN <<texts[1]>> ELSE <<>>)
       \o pick(Tail(stmts), Tail(texts), want)

\* JavaGenerator.visit_ProgramNode once the statements are rendered: the
\* partition, the entry point at current_indent_level = 1, the class
java_class(stmts, texts) ==
  LET static_method_definitions == pick(stmts, texts, TRUE)
      main_method_body_statements == with_semicolon(pick(stmts, texts, FALSE))
      main_body_str == join(<<"\n">>, prefix_each(make_indent(1) \o make_indent(1),
                                                  main_method_body_statements))
      main_method_code ==
        IF main_method_body_statements # <<>>
        THEN make_indent(1) \o <<"p","u","b","l","i","c"," ","s","t","a","t","i","c"," ","v","o","i","d"," ","m","a","i","n","(","S","t","r","i","n","g","[","]"," ","a","r","g","s",")"," ","{">> \o <<"\n">>
             \o main_body_str \o <<"\n">> \o make_indent(1) \o <<"}">>
        ELSE <<>>
      static_methods_code == join(<<"\n", "\n">>, static_method_definitions)
      class_body_parts == drop_empty(<<static_methods_code, main_method_code>>)
      class_body_str == join(<<"\n", "\n">>, class_body_parts)
  IN <<"p","u","b","l","i","c"," ","c","l","a","s","s"," ","C","o","n","v","e","r","t","e","d","C","o","d","e"," ","{">> \o <<"\n">> \o class_body_str \o <<"\n", "}">>

\* visit_ProgramNode as it would be without the test for an empty main
\* body: the entry point is written whether or not a statement goes into it
java_visit_ProgramNode_with_entry(node, level) ==
  LET r == visit_all("java", node.statements, level)
      methods == pick(node.statements, r.texts, TRUE)
      main_body_str == join(<<"\n">>, prefix_each(make_indent(1) \o make_indent(1),
                                                  with_semicolon(pick(node.statements, r.texts, FALSE))))
      main_method_code == make_indent(1) \o <<"p","u","b","l","i","c"," ","s","t","a","t","i","c"," ","v","o","i","d"," ","m","a","i","n","(","S","t","r","i","n","g","[","]"," ","a","r","g","s",")"," ","{">> \o <<"\n">>
                            \o main_body_str \o <<"\n">> \o make_indent(1) \o <<"}">>
      class_body_str == join(<<"\n", "\n">>,
                             drop_empty(<<join(<<"\n", "\n">>, methods), main_method_code>>))
  IN Out(<<"p","u","b","l","i","c"," ","c","l","a","s","s"," ","C","o","n","v","e","r","t","e","d","C","o","d","e"," ","{">> \o <<"\n">> \o class_body_str \o <<"\n", "}">>, 0)

\* JavaGenerator.visit_ProgramNode: the statements are rendered at the level
\* the counter has on entry, and the counter is 0 on exit
java_visit_ProgramNode(node, level) ==
  LET r == visit_all("java", node.statements, level)
  IN Out(java_class(node.statements, r.texts), 0)

\* JavaGenerator.visit_PrintNode
java_visit_PrintNode(node, level) ==
  LET expr_code == visit("java", node.expression, level)
  IN Out(make_indent(expr_code.level) \o kw.println \o <<"(">> \o expr_code.text \o <<")">>,
         expr_code.level)

\* JavaGenerator.visit_PowerNode
java_visit_PowerNode(node, level) ==
  LET base_code == visit("java", node.base, level)
      exponent_code == visit("java", node.exponent, base_code.level)
  IN Out(kw.Math_pow \o <<"(">> \o base_code.text \o <<","," ">> \o exponent_code.text \o <<")">>,
         exponent_code.level)

\* the header JavaGenerator.visit_ForLoopNode writes for an iterable text
java_for_header(iterator, iterable, level) ==
  LET range_args == split(SubSeq(iterable, 7, Len(iterable) - 1), <<",">>)
      n == Len(range_args)
      start == IF n = 1 THEN <<"0">> ELSE strip(range_args[1])
      end == IF n = 1 THEN strip(range_args[1]) ELSE strip(range_args[2])
      incr == IF n <= 2 THEN iterator \o <<"+","+">> ELSE iterator \o <<" ","+","="," ">> \o strip(range_args[3])
  IN IF startswith(iterable, kw.range)
     THEN make_indent(level) \o <<"f","o","r"," ","(","i","n","t"," ">> \o iterator \o <<" ","="," ">> \o start \o <<";"," ">>
          \o iterator \o <<" ","<"," ">> \o end \o <<";"," ">> \o incr \o <<")"," ","{">>
     ELSE make_indent(level) \o <<"f","o","r"," ","(","S","t","r","i","n","g"," ">> \o iterator \o <<" ",":"," ">> \o iterable \o <<")"," ","{">>

\* the opening line of visit_FunctionNode, visit_ForLoopNode and
\* visit_WhileLoopNode, written at the level the counter has before it is raised
java_header(node, level) ==
  IF node.type = "FunctionNode"
  THEN LET args_str == join(<<","," ">>, prefix_each(<<"S","t","r","i","n","g"," ">>, node.args))
       IN Out(make_indent(level) \o <<"p","u","b","l","i","c"," ","s","t","a","t","i","c"," ","v","o","i","d"," ">> \o node.name
                      \o <<"(">> \o args_str \o <<")"," ","{">>,
              level)
  ELSE IF node.type = "ForLoopNode"
  THEN LET iterable == visit("java", node.iterable, level)
       IN Out(java_for_header(node.iterator, iterable.text, iterable.level), iterable.level)
  ELSE LET condition == visit("java", node.condition, level)
       IN Out(make_indent(condition.level) \o <<"w","h","i","l","e"," ","(">> \o condition.text \o <<")"," ","{">>,
              condition.level)

\* the text visit_FunctionNode, visit_ForLoopNode and visit_WhileLoopNode
\* return once the body statements are rendered; level is the counter before
\* it is lowered: the "// Empty body" line is written there, the closing
\* brace one level lower
java_close(header, texts, level) ==
  LET body_code == IF texts = <<>> THEN make_indent(level) \o <<"/","/"," ","E","m","p","t","y"," ","b","o","d","y">>
                   ELSE join(<<"\n">>, with_semicolon(texts))
  IN header \o <<"\n">> \o body_code \o <<"\n">> \o make_indent(level - 1) \o <<"}">>

\* the tail shared by visit_FunctionNode, visit_ForLoopNode and
\* visit_WhileLoopNode: the body one level deeper, then the closing brace
java_block(header, body, level) ==
  LET r == visit_all("java", body, level + 1)
  IN Out(java_close(header, r.texts, r.level), r.level - 1)

\* JavaGenerator.visit_FunctionNode
java_visit_FunctionNode(node, level) ==
  LET h == java_header(node, level)
  IN java_block(h.text, node.body, h.level)

\* JavaGenerator.visit_ForLoopNode
java_visit_ForLoopNode(node, level) ==
  LET h == java_header(node, level)
  IN java_block(h.text, node.body, h.level)

\* JavaGenerator.visit_WhileLoopNode
java_visit_WhileLoopNode(node, level) ==
  LET h == java_header(node, level)
  IN java_block(h.text, node.body, h.level)

\* BaseGenerator.visit for an instance of class g ("base" or "java"):
\* getattr(self, 'visit_' + class name, self.generic_visit)
visit(g, node, level) ==
  IF node.type \notin NodeTypes THEN Out(str(node), level)
  ELSE IF node.type \notin (IF g = "java" THEN JavaRules ELSE BaseRules)
  THEN generic_visit(node, level)
  ELSE IF node.type = "ProgramNode"
  THEN (IF g = "java" THEN java_visit_ProgramNode(node, level)
        ELSE visit_ProgramNode(g, node, level))
  ELSE IF node.type = "VariableNode" THEN visit_VariableNode(node, level)
  ELSE IF node.type = "StringLiteralNode" THEN visit_StringLiteralNode(node, level)
  ELSE IF node.type = "NumberLiteralNode" THEN visit_NumberLiteralNode(node, level)
  ELSE IF node.type \in {"MathOpNode", "ComparisonNode"} THEN visit_MathOpNode(g, node, level)
  ELSE IF node.type = "AssignmentNode" THEN visit_AssignmentNode(g, node, level)
  ELSE IF node.type = "FunctionNode" THEN java_visit_FunctionNode(node, level)
  ELSE IF node.type = "PrintNode" THEN java_visit_PrintNode(node, level)
  ELSE IF node.type = "PowerNode" THEN java_visit_PowerNode(node, level)
  ELSE IF node.type = "ForLoopNode" THEN java_visit_ForLoopNode(node, level)
  ELSE java_visit_WhileLoopNode(node, level)

\* the classes the isinstance chain of PythonGenerator.visit reaches before
\* its test against FunctionCallNode, a name base_generator.py never imports
PythonRules == {"ProgramNode", "FunctionNode", "PrintNode", "MathOpNode", "VariableNode",
                "StringLiteralNode", "NumberLiteralNode", "PowerNode", "ForLoopNode",
                "WhileLoopNode", "ComparisonNode", "AssignmentNode"}

RECURSIVE py_raises(_), py_raises_any(_)

py_raises_any(nodes) ==
  IF nodes = <<>> THEN FALSE ELSE py_raises(nodes[1]) \/ py_raises_any(Tail(nodes))

\* PythonGenerator.visit raises: the node, or one the visit descends into,
\* falls through to `isinstance(node, FunctionCallNode)` (NameError)
py_raises(node) ==
  IF node.type \notin PythonRules THEN TRUE
  ELSE IF node.type = "ProgramNode" THEN py_raises_any(node.statements)
  ELSE IF node.type \in {"FunctionNode", "ForLoopNode"} THEN py_raises_any(node.body)
  ELSE IF node.type = "PrintNode" THEN py_raises(node.expression)
  ELSE IF node.type \in {"MathOpNode", "ComparisonNode"}
  THEN py_raises(node.left) \/ py_raises(node.right)
  ELSE IF node.type = "PowerNode" THEN py_raises(node.base) \/ py_raises(node.exponent)
  ELSE IF node.type = "WhileLoopNode"
  THEN py_raises(node.condition) \/ py_raises_any(node.body)
  ELSE IF node.type = "AssignmentNode" THEN py_raises(node.target) \/ py_raises(node.value)
  ELSE FALSE

RECURSIVE py_visit(_), py_visit_all(_)

py_visit_all(stmts) ==
  IF stmts = <<>> THEN <<>> ELSE <<py_visit(stmts[1])>> \o py_visit_all(Tail(stmts))

\* "\n".join("    " + self.visit(stmt) for stmt in body)
py_body(body) == join(<<"\n">>, prefix_each(<<" "," "," "," ">>, py_visit_all(body)))

\* PythonGenerator.visit_math_op: a VariableNode operand is wrapped in str()
py_operand(operand) ==
  IF operand.type = "VariableNode" THEN <<"s","t","r","(">> \o py_visit(operand) \o <<")">>
  ELSE py_visit(operand)

\* PythonGenerator.visit and the visit_* methods it dispatches to, for a
\* node on which it does not raise
py_visit(node) ==
  IF node.type = "ProgramNode" THEN join(<<"\n">>, py_visit_all(node.statements))
  ELSE IF node.type = "FunctionNode"
  THEN <<"d","e","f"," ">> \o node.name \o <<"(">> \o join(<<","," ">>, node.args) \o <<")", ":", "\n">>
       \o py_body(node.body)
  ELSE IF node.type = "PrintNode" THEN <<"p","r","i","n","t","(">> \o py_visit(node.expression) \o <<")">>
  ELSE IF node.type = "MathOpNode"
  THEN <<"(">> \o py_operand(node.left) \o <<" ">> \o node.operator \o <<" ">>
       \o py_operand(node.right) \o <<")">>
  ELSE IF node.type = "VariableNode" THEN node.name
  ELSE IF node.type = "StringLiteralNode" THEN <<"\"">> \o node.value \o <<"\"">>
  ELSE IF node.type = "NumberLiteralNode" THEN node.value
  ELSE IF node.type = "PowerNode"
  THEN <<"(">> \o py_visit(node.base) \o <<" ","*","*"," ">> \o py_visit(node.exponent) \o <<")">>
  ELSE IF node.type = "ForLoopNode"
  THEN <<"f","o","r"," ">> \o node.iterator \o <<" ","i","n"," ">> \o str(node.iterable) \o <<":", "\n">>
       \o py_body(node.body)
  ELSE IF node.type = "WhileLoopNode"
  THEN <<"w","h","i","l","e"," ">> \o py_visit(node.condition) \o <<":", "\n">> \o py_body(node.body)
  ELSE IF node.type = "ComparisonNode"
  THEN <<"(">> \o py_visit(node.left) \o <<" ">> \o node.operator \o <<" ">>
       \o py_visit(node.right) \o <<")">>
  ELSE py_visit(node.target) \o <<" ","="," ">> \o py_visit(node.value)

\* ------------------------------------------------------------ the inputs

\* at most this many snippets make up one source text
MaxItems == 2

NL == <<"\n">>

\* source snippets in the indentation language
PyItems == {
  <<"x"," ","="," ","5">>,
  <<"p","r","i","n","t","(","x",")">>,
  <<"z"," ","="," ","x"," ","+"," ","y">>,
  <<"b"," ","="," ","x"," ","<"," ","y">>,
  <<"d","e","f"," ","f","(",")",":","\n"," "," "," "," ","y"," ","="," ","2">>,
  <<"d","e","f"," ","g","(",")",":"," ","p","a","s","s">>,
  <<"p","a","s","s">>,
  <<"d","e","f"," ","h","(","a",")",":","\n"," "," "," "," ","f","o","r"," ","i"," ","i","n"," ","r","a","n","g","e","(","0",","," ","6",","," ","1",")",":","\n"," "," "," "," "," "," "," "," ","w"," ","="," ","i","\n"," "," "," "," ","v"," ","="," ","1">>,
  <<" "," "," ">> }

\* source snippets in the brace language
JavaItems == {
  <<"i","n","t"," ","x"," ","="," ","5",";">>,
  <<"S","y","s","t","e","m",".","o","u","t",".","p","r","i","n","t","l","n","(","x",")",";">>,
  <<"i","n","t"," ","z"," ","="," ","x"," ","+"," ","y",";">>,
  <<"v","o","i","d"," ","f","(",")"," ","{","\n"," "," "," "," ","i","n","t"," ","y"," ","="," ","2",";","\n","}">>,
  <<"v","o","i","d"," ","g","(",")"," ","{","\n","}">>,
  <<"f","o","r"," ","(","i","n","t"," ","i"," ","="," ","0",";"," ","i"," ","<"," ","3",";"," ","i","+","+",")"," ","{","\n"," "," "," "," ","S","y","s","t","e","m",".","o","u","t",".","p","r","i","n","t","l","n","(","i",")",";","\n","}">>,
  <<" "," "," ">> }

\* source snippets in the C-style language
CppItems == {
  <<"f","o","r"," ","(","i","n","t"," ","i"," ","="," ","0",";"," ","i"," ","<","="," ","5",";"," ","i","+","+",")"," ","{"," ","c","o","u","t"," ","<","<"," ","i",";"," ","}">>,
  <<"i","n","t"," ","x"," ","="," ","5",";">>,
  <<"c","o","u","t"," ","<","<"," ","x",";">>,
  <<"v","o","i","d"," ","f","(",")"," ","{","\n"," "," "," "," ","i","n","t"," ","y"," ","="," ","2",";","\n","}">>,
  <<" "," "," ">> }

\* the language keys a caller may pass: the three parser keys, the
\* generator-only key, and a key no table holds
LangKeys == {"python", "java", "cpp", "javascript", "ruby"}

ItemsOf(lang) ==
  IF lang = "python" THEN PyItems
  ELSE IF lang = "java" THEN JavaItems
  ELSE CppItems

\* the source texts: up to MaxItems snippets, one after the other
Programs(lang) ==
  {join(NL, items) : items \in UNION {[1..n -> ItemsOf(lang)] : n \in 0..MaxItems}}

\* ------------------------------------------------------------ convert_code

\* the if/elif chain on source_lang: the parser called, "" when none is
select_parser(lang) ==
  IF lang = "python" THEN "parse_python"
  ELSE IF lang = "java" THEN "parse_java"
  ELSE IF lang = "cpp" THEN "parse_cpp"
  ELSE ""

\* select_generator as the GENERATORS table of main.py would have it: the
\* generator-only key is missing
select_generator_table(lang) ==
  IF lang = "python" THEN "PythonGenerator"
  ELSE IF lang = "java" THEN "JavaGenerator"
  ELSE IF lang = "cpp" THEN "CppGenerator"
  ELSE ""

\* the if/elif chain on target_lang: the generator class, "" when none is
select_generator(lang) ==
  IF lang = "python" THEN "PythonGenerator"
  ELSE IF lang = "java" THEN "JavaGenerator"
  ELSE IF lang = "cpp" THEN "CppGenerator"
  ELSE IF lang = "javascript" THEN "JsGenerator"
  ELSE ""

\* CppGenerator and JsGenerator are imported by main.py from
\* generators/base_generator.py, which does not define them: each is taken
\* to be a BaseGenerator subclass without overrides
CppGenerator_visit(node) == visit("base", node, initial_indent_level).text

JsGenerator_visit(node) == visit("base", node, initial_indent_level).text

NoText == <<"<", "n", "o", "n", "e", ">">>

Init ==
  /\ pc = "start"
  /\ source_lang \in LangKeys
  /\ target_lang \in LangKeys
  /\ source_code \in Programs(source_lang)
  /\ ast = NoNode
  /\ output = NoText
  /\ error = ""
  /\ calls = <<>>
  /\ NoInstance

\* ast = parse_python(source_code)
ParsePython ==
  /\ pc = "start"
  /\ select_parser(source_lang) = "parse_python"
  /\ ast' = parse_python(source_code)
  /\ calls' = Append(calls, "parse_python")
  /\ pc' = "parsed"
  /\ UNCHANGED <<source_code, source_lang, target_lang, output, error>>
  /\ UNCHANGED render_vars

\* java_parser = JavaParser(); ast = java_parser.parse_java(source_code)
ParseJava ==
  /\ pc = "start"
  /\ select_parser(source_lang) = "parse_java"
  /\ ast' = parse_java(source_code)
  /\ calls' = Append(calls, "parse_java")
  /\ pc' = "parsed"
  /\ UNCHANGED <<source_code, source_lang, target_lang, output, error>>
  /\ UNCHANGED render_vars

\* ast = parse_cpp(source_code)
ParseCpp ==
  /\ pc = "start"
  /\ select_parser(source_lang) = "parse_cpp"
  /\ ast' = parse_cpp(source_code)
  /\ calls' = Append(calls, "parse_cpp")
  /\ pc' = "parsed"
  /\ UNCHANGED <<source_code, source_lang, target_lang, output, error>>
  /\ UNCHANGED render_vars

\* raise ValueError(f"Unsupported source language: {source_lang}")
RaiseUnsupportedSource ==
  /\ pc = "start"
  /\ select_parser(source_lang) = ""
  /\ error' = "ValueError: Unsupported source language"
  /\ pc' = "raised"
  /\ UNCHANGED <<source_code, source_lang, target_lang, ast, output, calls>>
  /\ UNCHANGED render_vars

\* generator = PythonGenerator(); return generator.visit(ast)
GeneratePython ==
  /\ pc = "parsed"
  /\ select_generator(target_lang) = "PythonGenerator"
  /\ calls' = Append(calls, "PythonGenerator.visit")
  /\ IF py_raises(ast)
     THEN /\ error' = "NameError: name 'FunctionCallNode' is not defined"
          /\ pc' = "raised"
          /\ UNCHANGED output
     ELSE /\ output' = py_visit(ast)
          /\ pc' = "returned"
          /\ UNCHANGED error
  /\ UNCHANGED <<source_code, source_lang, target_lang, ast>>
  /\ UNCHANGED render_vars

\* generator = JavaGenerator(); return generator.visit(ast)
GenerateJava ==
  /\ pc = "parsed"
  /\ select_generator(target_lang) = "JavaGenerator"
  /\ calls' = Append(calls, "JavaGenerator.visit")
  /\ output' = visit("java", ast, initial_indent_level).text
  /\ pc' = "returned"
  /\ UNCHANGED <<source_code, source_lang, target_lang, ast, error>>
  /\ UNCHANGED render_vars

\* generator = CppGenerator(); return generator.visit(ast)
GenerateCpp ==
  /\ pc = "parsed"
  /\ select_generator(target_lang) = "CppGenerator"
  /\ calls' = Append(calls, "CppGenerator.visit")
  /\ output' = CppGenerator_visit(ast)
  /\ pc' = "returned"
  /\ UNCHANGED <<source_code, source_lang, target_lang, ast, error>>
  /\ UNCHANGED render_vars

\* generator = JsGenerator(); return generator.visit(ast)
GenerateJs ==
  /\ pc = "parsed"
  /\ select_generator(target_lang) = "JsGenerator"
  /\ calls' = Append(calls, "JsGenerator.visit")
  /\ output' = JsGenerator_visit(ast)
  /\ pc' = "returned"
  /\ UNCHANGED <<source_code, source_lang, target_lang, ast, error>>
  /\ UNCHANGED render_vars

\* raise ValueError(f"Unsupported target language: {target_lang}")
RaiseUnsupportedTarget ==
  /\ pc = "parsed"
  /\ select_generator(target_lang) = ""
  /\ error' = "ValueError: Unsupported target language"
  /\ pc' = "raised"
  /\ UNCHANGED <<source_code, source_lang, target_lang, ast, output, calls>>
  /\ UNCHANGED render_vars

Next ==
  \/ ParsePython
  \/ ParseJava
  \/ ParseCpp
  \/ RaiseUnsupportedSource
  \/ GeneratePython
  \/ GenerateJava
  \/ GenerateCpp
  \/ GenerateJs
  \/ RaiseUnsupportedTarget

Spec == Init /\ [][Next]_vars

\* ---------------------------------------------------------------- claims

Finished == pc \in {"returned", "raised"}

UnsupportedLanguage ==
  error \in {"ValueError: Unsupported source language",
             "ValueError: Unsupported target language"}

\* C1: a call that fails with the unsupported-language error has invoked no
\* parser and no generator before failing; in particular a registered source
\* key with an unregistered target key fails with no parse step before it.
C1_FailsBeforeAnyParse ==
  (pc = "raised" /\ UnsupportedLanguage) => calls = <<>>

\* C2: convert_code returns text only for a source key among python, java,
\* cpp together with a target key among python, java, cpp, javascript; every
\* other key pair ends in the unsupported-language error with no text, and a
\* pair of those keys never ends in that error (javascript is accepted as a
\* target and rejected as a source).
C2_TextOnlyForRegisteredPairs ==
  LET registered == /\ source_lang \in {"python", "java", "cpp"}
                    /\ target_lang \in {"python", "java", "cpp", "javascript"}
  IN /\ pc = "returned" => registered /\ output # NoText
     /\ (Finished /\ ~registered) => pc = "raised" /\ UnsupportedLanguage /\ output = NoText
     /\ registered => ~UnsupportedLanguage

\* a conversion into the generator-only language has returned its text
C2_Witness ==
  pc = "returned" /\ source_lang = "python" /\ target_lang = "javascript" /\ output # NoText

\* ------------------------------------------------------- C3: round trip

\* s without its spaces
squeeze(s) == SelectSeq(s, LAMBDA c : c \notin SpaceChar)

\* s without the semicolons and spaces that close it
RECURSIVE unterminated(_)
unterminated(s) ==
  IF s # <<>> /\ s[Len(s)] \in SpaceChar \cup {";"}
  THEN unterminated(SubSeq(s, 1, Len(s) - 1))
  ELSE s

\* e without one pair of parentheses around the whole of it
unparenthesised(e) ==
  IF Len(e) >= 2 /\ e[1] = "(" /\ e[Len(e)] = ")" THEN SubSeq(e, 2, Len(e) - 1) ELSE e

\* the statement one line of a program writes, read off its text: a print
\* of an expression, an assignment of an expression to a name, or something
\* else; spacing, closing semicolons, a declared type and parentheses around
\* the whole expression make no difference to it
written_statement(lang, line) ==
  LET s == unterminated(strip(line))
      word == (IF lang = "python" THEN kw.print ELSE kw.println) \o <<"(">>
      eq == find(s, 1, <<"=">>)
  IN IF startswith(s, word) /\ endswith(s, <<")">>)
     THEN [kind |-> "print", target |-> <<>>,
           expr |-> unparenthesised(squeeze(SubSeq(s, Len(word) + 1, Len(s) - 1)))]
     ELSE IF eq > 1 /\ is_identifier(last_word(strip(SubSeq(s, 1, eq - 1))))
     THEN [kind |-> "assignment", target |-> last_word(strip(SubSeq(s, 1, eq - 1))),
           expr |-> unparenthesised(squeeze(From(s, eq + 1)))]
     ELSE [kind |-> "other", target |-> <<>>, expr |-> squeeze(s)]

\* the statements a text writes, in order; blank lines write none
RECURSIVE written_statements(_, _)
written_statements(lang, lines) ==
  IF lines = <<>> THEN <<>>
  ELSE IF strip(Head(lines)) = <<>> THEN written_statements(lang, Tail(lines))
  ELSE <<written_statement(lang, Head(lines))>> \o written_statements(lang, Tail(lines))

\* the lines of a generated program that hold its statements: all of them
\* but the class, the entry point and their closing braces
statement_lines(lang, text) ==
  LET lines == split(text, NL)
      wrapper(l) == \/ strip(l) = <<"}">>
                    \/ startswith(strip(l), kw.public)
  IN IF lang = "java" THEN SelectSeq(lines, LAMBDA l : ~wrapper(l)) ELSE lines

\* a program of assignment and print statements only, one to a line
IsSimpleProgram(lang, text) ==
  LET stmts == written_statements(lang, split(text, NL))
  IN /\ stmts # <<>>
     /\ \A k \in 1..Len(stmts) : stmts[k].kind # "other"

RoundTrip ==
  /\ pc = "returned"
  /\ source_lang = target_lang
  /\ source_lang \in {"python", "java"}
  /\ IsSimpleProgram(source_lang, source_code)

\* C3: a program of assignment, print, addition and comparison statements,
\* parsed and rendered back into its own language, comes out with the same
\* statements in the same order: each assignment an assignment of the same
\* expression to the same name, each print a print of the same expression.
C3_RoundTripKeepsStatements ==
  RoundTrip =>
    written_statements(target_lang, statement_lines(target_lang, output))
      = written_statements(source_lang, split(source_code, NL))

\* ---------------------------------------------------- C4: counted loops

LoopBound == 2

MaxStep == 2

\* more values than a terminating loop within the bounds, or the loop from 0
\* to 5, visits
MaxIter == LoopBound + 5

DigitChars == <<"0", "1", "2", "3", "4", "5", "6", "7", "8", "9">>

\* the decimal numeral of a natural number, and of an integer
RECURSIVE numeral(_)
numeral(n) ==
  IF n < 10 THEN <<DigitChars[n + 1]>>
  ELSE numeral(n \div 10) \o <<DigitChars[(n % 10) + 1]>>

format_int(n) == IF n < 0 THEN <<"-">> \o numeral(0 - n) ELSE numeral(n)

\* the number a decimal numeral denotes
RECURSIVE natural(_)
natural(s) ==
  IF s = <<>> THEN 0
  ELSE natural(SubSeq(s, 1, Len(s) - 1)) * 10
         + (CHOOSE d \in 0..9 : DigitChars[d + 1] = s[Len(s)])

IsNumeral(s) == s # <<>> /\ \A k \in 1..Len(s) : s[k] \in Digit

\* the value of an integer expression of a generated header: a numeral, a
\* negated numeral, or the sum of two of these; [ok |-> FALSE] when the text
\* is no such expression
int_value(text) ==
  LET s == strip(text)
  IN IF IsNumeral(s) THEN [ok |-> TRUE, n |-> natural(s)]
     ELSE IF s # <<>> /\ s[1] = "-" /\ IsNumeral(strip(Tail(s)))
     THEN [ok |-> TRUE, n |-> 0 - natural(strip(Tail(s)))]
     ELSE [ok |-> FALSE, n |-> 0]

expr_value(text) ==
  LET parts == split(text, <<"+">>)
  IN IF Len(parts) = 2 /\ int_value(parts[1]).ok /\ int_value(parts[2]).ok
     THEN [ok |-> TRUE, n |-> int_value(parts[1]).n + int_value(parts[2]).n]
     ELSE int_value(text)

\* the values a counted loop gives its iterator, in order: from i, adding
\* step, while the comparison with end holds; at most n of them
RECURSIVE loop_values(_, _, _, _, _)
loop_values(i, cmp, end, step, n) ==
  LET holds == CASE cmp = "<" -> i < end
                 [] cmp = "<=" -> i <= end
                 [] cmp = ">" -> i > end
                 [] OTHER -> i >= end
  IN IF n = 0 \/ ~holds THEN <<>>
     ELSE <<i>> \o loop_values(i + step, cmp, end, step, n - 1)

Visits(values) == [ok |-> TRUE, values |-> values]

NoLoop == [ok |-> FALSE, values |-> <<>>]

\* the counted-loop headers: comparison, step form, start, end and K
StepForms == {"++", "--", "+=", "-="}

LoopHeaders ==
  [start : 0..LoopBound, cmp : {"<", "<=", ">", ">="}, end : 0..LoopBound,
   step_op : StepForms, K : 1..MaxStep]

step_of(h) ==
  CASE h.step_op = "++" -> 1
    [] h.step_op = "--" -> 0 - 1
    [] h.step_op = "+=" -> h.K
    [] OTHER -> 0 - h.K

chars(word) ==
  CASE word = "<" -> <<"<">>
    [] word = "<=" -> <<"<", "=">>
    [] word = ">" -> <<">">>
    [] word = ">=" -> <<">", "=">>
    [] word = "++" -> <<"+", "+">>
    [] word = "--" -> <<"-", "-">>
    [] word = "+=" -> <<" ", "+", "=", " ">>
    [] OTHER -> <<" ", "-", "=", " ">>

\* the loop `for (int i = start; i cmp end; i step) {` and its closing brace
loop_text(h) ==
  <<"f","o","r"," ","(","i","n","t"," ","i"," ","="," ">> \o format_int(h.start) \o <<";"," ","i"," ">> \o chars(h.cmp) \o <<" ">>
    \o format_int(h.end) \o <<";"," ","i">> \o chars(h.step_op)
    \o (IF h.step_op \in {"+=", "-="} THEN format_int(h.K) ELSE <<>>)
    \o <<")"," ","{","\n","}">>

\* what the loop as written visits
written_values(h) == Visits(loop_values(h.start, h.cmp, h.end, step_of(h), MaxIter))

\* what `for it in range(start, end, step):` visits in the indentation
\* language; a zero step, or an argument that is no integer, is an error
range_values(iterable) ==
  LET args == split(SubSeq(iterable, Len(kw.range) + 1, Len(iterable) - 1), <<",">>)
      a == expr_value(args[1])
      b == expr_value(args[2])
      c == expr_value(args[3])
  IN IF /\ startswith(iterable, kw.range) /\ endswith(iterable, <<")">>)
        /\ Len(args) = 3 /\ a.ok /\ b.ok /\ c.ok /\ c.n # 0
     THEN Visits(loop_values(a.n, IF c.n > 0 THEN "<" ELSE ">", b.n, c.n, MaxIter))
     ELSE NoLoop

\* what a generated brace-language header visits
header_values(line) ==
  LET m == BRACE_FOR_LOOP_REGEX(line)
      a == expr_value(m.g2)
      b == expr_value(m.g4)
      c == expr_value(m.g6)
  IN IF m.ok /\ m.g5 = <<"+", "=">> /\ a.ok /\ b.ok /\ c.ok
     THEN Visits(loop_values(a.n, IF m.g3 = <<"<">> THEN "<" ELSE ">", b.n, c.n, MaxIter))
     ELSE NoLoop

\* what the first loop of a generated program visits
generated_values(lang, text) ==
  LET lines == SelectSeq(strip_each(split(text, NL)), LAMBDA l : startswith(l, kw.for))
  IN IF lines = <<>> THEN NoLoop
     ELSE IF lang = "python"
     THEN IF PY_FOR_LOOP_REGEX(lines[1]).ok THEN range_values(PY_FOR_LOOP_REGEX(lines[1]).g2)
          ELSE NoLoop
     ELSE header_values(lines[1])

LoopInit ==
  /\ pc = "start"
  /\ source_lang \in {"java", "cpp"}
  /\ target_lang \in {"python", "java"}
  /\ source_code \in {loop_text(h) : h \in LoopHeaders}
  /\ ast = NoNode
  /\ output = NoText
  /\ error = ""
  /\ calls = <<>>
  /\ NoInstance

LoopNext ==
  \/ ParseJava
  \/ ParseCpp
  \/ GeneratePython
  \/ GenerateJava

SpecLoop == LoopInit /\ [][LoopNext]_vars

\* C4: the loop a generator writes from the descriptor a brace-language
\* parser derived visits the same iterator values, in the same order, as the
\* counted loop that was parsed, whatever its comparison, step form, start,
\* end and K.
C4_LoopVisitsSameValues ==
  \A h \in LoopHeaders :
    (pc = "returned" /\ source_code = loop_text(h))
      => generated_values(target_lang, output) = written_values(h)

\* ---------------------------------------------- C5: the single-line loop

SingleLineLoop == <<"f","o","r"," ","(","i","n","t"," ","i"," ","="," ","0",";"," ","i"," ","<","="," ","5",";"," ","i","+","+",")"," ","{"," ","c","o","u","t"," ","<","<"," ","i",";"," ","}">>

\* the ForLoop the single-line loop is to parse to: iterator i, a descriptor
\* that visits 0..5, and the print of i as its body
IsLoopFromZeroToFive(node) ==
  /\ node.type = "ForLoopNode"
  /\ node.iterator = <<"i">>
  /\ node.iterable.type = "str"
  /\ range_values(node.iterable.value) = Visits(<<0, 1, 2, 3, 4, 5>>)
  /\ node.body = <<PrintNode(VariableNode(<<"i">>))>>

\* C5: parse_cpp turns the single line `for (int i = 0; i <= 5; i++) { cout
\* << i; }` into a Program of one ForLoop with iterator i, a descriptor
\* equivalent to (0, 6, 1) and the body [Print(Variable("i"))], and the loop
\* generated from it runs for i = 0, 1, 2, 3, 4, 5.
C5_SingleLineLoopParsed ==
  (source_lang = "cpp" /\ source_code = SingleLineLoop) =>
    /\ pc # "start" =>
         /\ ast.type = "ProgramNode"
         /\ Len(ast.statements) = 1
         /\ IsLoopFromZeroToFive(ast.statements[1])
    /\ (pc = "returned" /\ target_lang \in {"python", "java"}) =>
         generated_values(target_lang, output) = Visits(<<0, 1, 2, 3, 4, 5>>)

\* ------------------------------------- C6: where a function's body ends

\* the parser convert_code calls for a source key
parse(lang, code) ==
  IF lang = "python" THEN parse_python(code)
  ELSE IF lang = "java" THEN parse_java(code)
  ELSE parse_cpp(code)

\* the snippets that open a function definition at indentation 0
FunctionItems(lang) ==
  {it \in ItemsOf(lang) : startswith(it, IF lang = "python" THEN kw.def ELSE kw.void)}

\* the snippets of one line that are one statement, at indentation 0
StatementItems(lang) ==
  {it \in ItemsOf(lang) :
     /\ ~contains(it, NL)
     /\ it[1] \notin SpaceChar
     /\ it \notin FunctionItems(lang)
     /\ Len(parse(lang, it).statements) = 1}

FunctionThenStatement(fi, si) ==
  /\ pc # "start"
  /\ source_lang \in SourceLangs
  /\ fi \in FunctionItems(source_lang)
  /\ si \in StatementItems(source_lang)
  /\ source_code = fi \o NL \o si

\* C6: when a function definition is followed by an unrelated statement at
\* the definition's own indentation, the Program holds the Function, with
\* the body the definition has on its own, and right after it the statement;
\* the statement is never inside the function's body.
C6_BodyEndsBeforeNextStatement ==
  \A fi \in ItemsOf(source_lang), si \in ItemsOf(source_lang) :
    FunctionThenStatement(fi, si) =>
      /\ Len(ast.statements) = 2
      /\ ast.statements[1].type = "FunctionNode"
      /\ ast.statements[1] = parse(source_lang, fi).statements[1]
      /\ ast.statements[2] = parse(source_lang, si).statements[1]

\* ------------------------------------------- C7: rendering any IR node

\* nodes to render: expressions, with and without a rendering rule, the
\* statements over them, and the blocks over those
LeafNodes ==
  {VariableNode(<<"x">>), NumberLiteralNode(<<"5">>), StringLiteralNode(<<"a">>)}

UnruledNodes == {FunctionCallNode(<<"f">>, <<VariableNode(<<"x">>)>>), OtherNode}

ExpressionNodes ==
  LeafNodes \cup UnruledNodes
    \cup {MathOpNode(<<"+">>, VariableNode(<<"x">>), e) : e \in LeafNodes \cup UnruledNodes}
    \cup {ComparisonNode(<<"<">>, e, NumberLiteralNode(<<"5">>)) : e \in LeafNodes}
    \cup {PowerNode(VariableNode(<<"x">>), NumberLiteralNode(<<"2">>))}

StatementNodes ==
  {PrintNode(e) : e \in LeafNodes \cup UnruledNodes}
    \cup {AssignmentNode(VariableNode(<<"y">>), e) : e \in LeafNodes \cup UnruledNodes}
    \cup UnruledNodes

BlockNodes ==
  {FunctionNode(<<"g">>, <<<<"a">>>>, <<s>>) : s \in StatementNodes}
    \cup {ForLoopNode(<<"i">>, Str(<<"r","a","n","g","e","(","3",")">>), <<s>>) : s \in StatementNodes}
    \cup {WhileLoopNode(ComparisonNode(<<"<">>, VariableNode(<<"x">>), NumberLiteralNode(<<"5">>)), <<s>>) :
            s \in StatementNodes}
    \cup {ProgramNode(<<s>>) : s \in StatementNodes}
    \cup {ProgramNode(<<>>)}

NodeCatalogue == ExpressionNodes \cup StatementNodes \cup BlockNodes

\* the classes a generator has a rendering rule for
RulesOf(generator) ==
  IF generator = "python" THEN PythonRules \cup {"FunctionCallNode"}
  ELSE IF generator = "java" THEN JavaRules
  ELSE BaseRules

\* BaseGenerator().visit(node)
VisitBase ==
  /\ pc = "parsed"
  /\ target_lang = "base"
  /\ calls' = Append(calls, "BaseGenerator.visit")
  /\ output' = visit("base", ast, initial_indent_level).text
  /\ pc' = "returned"
  /\ UNCHANGED <<source_code, source_lang, target_lang, ast, error>>
  /\ UNCHANGED render_vars

\* a generator is handed a node
VisitInit ==
  /\ pc = "parsed"
  /\ source_lang = "python"
  /\ source_code = <<>>
  /\ target_lang \in {"base", "java", "python"}
  /\ ast \in NodeCatalogue
  /\ output = NoText
  /\ error = ""
  /\ calls = <<>>
  /\ NoInstance

VisitNext ==
  \/ VisitBase
  \/ GenerateJava
  \/ GeneratePython

SpecVisit == VisitInit /\ [][VisitNext]_vars

\* C7: every generator renders every node without raising, and a node of a
\* class the generator has no rule for comes out as its generic
\* stringification.
C7_RenderingNeverRaises ==
  Finished =>
    /\ pc = "returned"
    /\ ast.type \notin RulesOf(target_lang) => output = str(ast)

\* ------------------------------- C8: functions, then the entry point

IsFunction(stmt) == stmt.type = "FunctionNode"

\* each statement as the brace-language generator renders it by itself
java_texts(stmts) ==
  [k \in 1..Len(stmts) |-> visit("java", stmts[k], initial_indent_level).text]

ClassHeader == <<"p","u","b","l","i","c"," ","c","l","a","s","s"," ","C","o","n","v","e","r","t","e","d","C","o","d","e"," ","{">>

MainHeader == <<" "," "," "," ","p","u","b","l","i","c"," ","s","t","a","t","i","c"," ","v","o","i","d"," ","m","a","i","n","(","S","t","r","i","n","g","[","]"," ","a","r","g","s",")"," ","{">>

matches_pattern(lang, text) ==
  LET line == strip(text)
  IN IF lang = "python"
     THEN \/ PY_FUNCTION_CALL_REGEX(line).ok
          \/ PY_ASSIGNMENT_REGEX(line).ok
          \/ PY_FUNC_DEF_REGEX(line).ok
          \/ PY_FOR_LOOP_REGEX(line).ok
          \/ PY_WHILE_LOOP_REGEX(line).ok
          \/ PY_PRINT_REGEX(line).ok
     ELSE \/ BRACE_ASSIGNMENT_REGEX(line).ok
          \/ (IF lang = "java" THEN JAVA_FUNC_DEF_REGEX(line) ELSE CPP_FUNC_DEF_REGEX(line)).ok
          \/ BRACE_FOR_LOOP_REGEX(line).ok
          \/ BRACE_WHILE_LOOP_REGEX(line).ok
          \/ (IF lang = "java" THEN JAVA_PRINT_REGEX(line) ELSE CPP_PRINT_REGEX(line)).ok

\* the lines without the k-th
without(lines, k) == SubSeq(lines, 1, k - 1) \o SubSeq(lines, k + 1, Len(lines))

\* C9: each parser returns a Program for every text, and a line that
\* matches no statement pattern adds nothing to it: the statements are
\* those the text without that line parses to, in the same order.
C9_UnmatchedLineIsAbsent ==
  (pc # "start" /\ source_lang \in SourceLangs) =>
    /\ ast.type = "ProgramNode"
    /\ LET lines == split(source_code, NL)
       IN \A k \in 1..Len(lines) :
            ~matches_pattern(source_lang, lines[k]) =>
              ast.statements = parse(source_lang, join(NL, without(lines, k))).statements

\* ------------------------------------------------ C10: blank sources

\* the text is empty or holds blank lines only
IsBlank(text) == \A k \in 1..Len(text) : text[k] \in SpaceChar

EmptyClass == ClassHeader \o <<"\n", "\n", "}">>

\* C10: a source that is empty or only blank lines parses, with each parser,
\* to a Program of zero statements, and each generator renders that Program
\* without raising: as the empty text, or as the empty class of the brace
\* language.
C10_BlankSourceIsEmptyProgram ==
  (source_lang \in SourceLangs /\ IsBlank(source_code)) =>
    /\ pc # "start" => ast = ProgramNode(<<>>)
    /\ (Finished /\ target_lang \in {"python", "java", "cpp", "javascript"}) =>
         /\ pc = "returned"
         /\ output = IF target_lang = "java" THEN EmptyClass ELSE <<>>

\* lines of blanks have been parsed and rendered into the brace language
C10_Witness ==
  /\ pc = "returned"
  /\ contains(source_code, NL)
  /\ IsBlank(source_code)
  /\ ast = ProgramNode(<<>>)
  /\ target_lang = "java"
  /\ output = EmptyClass

\* ------------------------------------- C11: string literals, escapes

MaxPieces == 3

\* what the interior of a quoted literal is written from: ordinary
\* characters and the four escape sequences
EscapeQuote == <<"\\", "\"">>

EscapeNewline == <<"\\", "n">>

EscapeTab == <<"\\", "t">>

EscapeBackslash == <<"\\", "\\">>

OrdinaryPieces == {<<"a">>, <<"n">>}

Pieces == OrdinaryPieces \cup {EscapeQuote, EscapeNewline, EscapeTab, EscapeBackslash}

RECURSIVE concat(_)
concat(parts) == IF parts = <<>> THEN <<>> ELSE Head(parts) \o concat(Tail(parts))

Interiors == {concat(ps) : ps \in UNION {[1..n -> Pieces] : n \in 0..MaxPieces}}

\* one statement that holds the literal: a print in the brace languages, an
\* assignment in the indentation language
literal_statement(lang, interior) ==
  LET quoted == <<"\"">> \o interior \o <<"\"">>
  IN IF lang = "python" THEN <<"x"," ","="," ">> \o quoted
     ELSE IF lang = "java" THEN kw.println \o <<"(">> \o quoted \o <<")",";">>
     ELSE <<"c","o","u","t"," ","<","<"," ">> \o quoted \o <<";">>

\* the interior of the literal a statement holds: what stands between its
\* first and its last quote
interior_of(text) ==
  SubSeq(text, find(text, 1, <<"\"">>) + 1, rfind(text, 1, <<"\"">>) - 1)

\* the pieces of an interior, read from left to right
RECURSIVE pieces_of(_)
pieces_of(s) ==
  IF s = <<>> THEN <<>>
  ELSE IF s[1] = "\\" /\ Len(s) >= 2
  THEN <<SubSeq(s, 1, 2)>> \o pieces_of(From(s, 3))
  ELSE <<SubSeq(s, 1, 1)>> \o pieces_of(Tail(s))

\* the character an escape sequence denotes; an ordinary character is itself
denoted(piece) ==
  IF piece = EscapeQuote THEN <<"\"">>
  ELSE IF piece = EscapeNewline THEN <<"\n">>
  ELSE IF piece = EscapeTab THEN <<"\t">>
  ELSE IF piece = EscapeBackslash THEN <<"\\">>
  ELSE piece

\* the left-to-right decoding of an interior
decoded(interior) ==
  LET ps == pieces_of(interior)
  IN concat([k \in 1..Len(ps) |-> denoted(ps[k])])

\* the expression of the one statement of the Program
expression_of(program) ==
  LET stmt == program.statements[1]
  IN IF stmt.type = "PrintNode" THEN stmt.expression
     ELSE IF stmt.type = "AssignmentNode" THEN stmt.value
     ELSE stmt

\* a parser is handed one statement that holds a quoted literal
LiteralInit ==
  /\ pc = "start"
  /\ source_lang \in SourceLangs
  /\ target_lang = "python"
  /\ source_code \in {literal_statement(source_lang, interior) : interior \in Interiors}
  /\ ast = NoNode
  /\ output = NoText
  /\ error = ""
  /\ calls = <<>>
  /\ NoInstance

LiteralNext ==
  \/ ParsePython
  \/ ParseJava
  \/ ParseCpp

SpecLiteral == LiteralInit /\ [][LiteralNext]_vars

\* the interior holds an escaped quote and an escaped newline, and apart
\* from them ordinary characters only
QuoteAndNewline(interior) ==
  LET ps == pieces_of(interior)
  IN /\ \E k \in 1..Len(ps) : ps[k] = EscapeQuote
     /\ \E k \in 1..Len(ps) : ps[k] = EscapeNewline
     /\ \A k \in 1..Len(ps) : ps[k] \in OrdinaryPieces \cup {EscapeQuote, EscapeNewline}

\* C11: parse_cpp turns a quoted literal whose interior holds an escaped
\* quote and an escaped newline into a StringLiteral whose content is the
\* interior with the one replaced by a quote character and the other by a
\* newline character, every other character unchanged.
C11_QuoteAndNewlineResolved ==
  (pc = "parsed" /\ source_lang = "cpp" /\ QuoteAndNewline(interior_of(source_code))) =>
    /\ Len(ast.statements) = 1
    /\ expression_of(ast) = StringLiteralNode(decoded(interior_of(source_code)))

\* parse_cpp has parsed the literal "a\"\n"
C11_Witness ==
  /\ pc = "parsed"
  /\ source_lang = "cpp"
  /\ interior_of(source_code) = <<"a">> \o EscapeQuote \o EscapeNewline
  /\ expression_of(ast) = StringLiteralNode(<<"a", "\"", "\n">>)

\* ------------------------------- C13, C14: the normalised descriptor

\* the arguments of the descriptor range(start, end, step) stored in the
\* ForLoop that is the one statement of the Program
descriptor_args(program) ==
  LET iterable == program.statements[1].iterable.value
  IN strip_each(split(SubSeq(iterable, Len(kw.range) + 1, Len(iterable) - 1), <<",">>))

\* the header line of the loop has been parsed into a ForLoop
LoopParsed(h) ==
  /\ pc # "start"
  /\ source_code = loop_text(h)
  /\ Len(ast.statements) = 1
  /\ ast.statements[1].type = "ForLoopNode"

\* C13: from a header whose comparison is written `<=` the parser takes the
\* operator `<=` and stores start a and end `b + 1`; from one written `<` or
\* `>=` it stores start and end unchanged.
C13_InclusiveBoundAddsOne ==
  \A h \in LoopHeaders :
    LoopParsed(h) =>
      LET header == split(source_code, NL)[1]
          args == descriptor_args(ast)
      IN /\ h.cmp = "<=" =>
              /\ BRACE_FOR_LOOP_REGEX(header).g3 = chars("<=")
              /\ args[1] = format_int(h.start)
              /\ args[2] = format_int(h.end) \o <<" ","+"," ","1">>
         /\ h.cmp \in {"<", ">="} =>
              /\ args[1] = format_int(h.start)
              /\ args[2] = format_int(h.end)

\* C14: for the comparison `>` the descriptor has start and end swapped and
\* a step whose sign is the inverse of the step of the step form (`++` 1,
\* `--` -1, `+=K` K, `-=K` -K), for each of the four step forms.
C14_DescendingSwapsAndInverts ==
  \A h \in LoopHeaders :
    (LoopParsed(h) /\ h.cmp = ">") =>
      LET args == descriptor_args(ast)
      IN /\ args[1] = format_int(h.end)
         /\ args[2] = format_int(h.start)
         /\ int_value(args[3]) = [ok |-> TRUE, n |-> 0 - step_of(h)]

\* ------------------------------------------- C15: nested blocks

IndentUnit == Len(indent_char)

\* the last line of the run that follows line i, up to line j, of lines that
\* are blank or indented deeper than line i
RECURSIVE run_end(_, _, _, _)
run_end(lines, i, k, j) ==
  IF k + 1 <= j /\ (strip(lines[k + 1]) = <<>> \/ indent_of(lines[k + 1]) > indent_of(lines[i]))
  THEN run_end(lines, i, k + 1, j)
  ELSE k

\* the statements a single cursor builds from lines i..j of the original
\* text: each line gives the node it gives by itself, and a node with a body
\* gets, as its body, what the cursor builds from the run of deeper lines
\* that follows it
RECURSIVE single_cursor(_, _, _, _)
single_cursor(lang, lines, i, j) ==
  IF i > j THEN <<>>
  ELSE LET alone == parse(lang, strip(lines[i])).statements
           e == run_end(lines, i, i, j)
       IN IF alone = <<>> THEN single_cursor(lang, lines, i + 1, j)
          ELSE IF "body" \in DOMAIN alone[1]
          THEN <<[alone[1] EXCEPT !.body = single_cursor(lang, lines, i + 1, e)]>>
               \o single_cursor(lang, lines, e + 1, j)
          ELSE <<alone[1]>> \o single_cursor(lang, lines, i + 1, j)

\* the text starts at indentation 0 and every line is indented by a whole
\* number of units, at most one unit deeper than the line before it
ConsistentlyIndented(text) ==
  LET lines == SelectSeq(split(text, NL), LAMBDA l : strip(l) # <<>>)
  IN /\ lines # <<>> => indent_of(lines[1]) = 0
     /\ \A k \in 1..Len(lines) : indent_of(lines[k]) % IndentUnit = 0
     /\ \A k \in 2..Len(lines) : indent_of(lines[k]) <= indent_of(lines[k - 1]) + IndentUnit

\* C15: for a consistently indented text, the body of every block opener,
\* at every depth, is what the run of deeper lines after it parses to, a
\* statement that follows a nested block at the opener's indentation stays
\* in the enclosing body, and the tree is the one a single cursor over the
\* original lines builds.
C15_TreeOfSingleCursor ==
  (pc # "start" /\ source_lang \in SourceLangs /\ ConsistentlyIndented(source_code)) =>
    LET lines == split(source_code, NL)
    IN ast.statements = single_cursor(source_lang, lines, 1, Len(lines))

\* C18: parse_cpp gives a quoted literal the left-to-right decoding of its
\* interior, each of the four escape sequences becoming the one character it
\* denotes (an escaped backslash followed by the letter n is a backslash and
\* the letter n); parse_python and parse_java keep the interior as written.
C18_LeftToRightDecoding ==
  (pc = "parsed" /\ source_lang \in SourceLangs) =>
    /\ Len(ast.statements) = 1
    /\ expression_of(ast) =
         StringLiteralNode(IF source_lang = "cpp" THEN decoded(interior_of(source_code))
                           ELSE interior_of(source_code))

\* ------------------------------------------------ C19: print lines

\* the line is `print(<expr>)`
IsPrintLine(line) == startswith(line, kw.print \o <<"(">>) /\ endswith(line, <<")">>)

\* C19: parse_python turns every line `print(<expr>)` into a Print node
\* whose expression is the parse of <expr>, never into a node of another
\* variant.
C19_PrintLineIsPrintNode ==
  (pc # "start" /\ source_lang = "python" /\ IsSimpleProgram("python", source_code)) =>
    LET lines == split(source_code, NL)
    IN /\ Len(ast.statements) = Len(lines)
       /\ \A k \in 1..Len(lines) :
            IsPrintLine(lines[k]) =>
              ast.statements[k] =
                PrintNode(parse_expression("python",
                                           SubSeq(lines[k], Len(kw.print) + 2, Len(lines[k]) - 1)))

\* ------------------------------- C20: indentation of generated blocks

IsBlockNode(node) == node.type \in {"FunctionNode", "ForLoopNode", "WhileLoopNode"}

\* the nesting depth of each line the statements give, in order, when the
\* first of them stands at depth d: a block gives its header line and then
\* the lines of its body one level deeper
RECURSIVE line_depths(_, _)
line_depths(stmts, d) ==
  IF stmts = <<>> THEN <<>>
  ELSE (IF IsBlockNode(Head(stmts))
        THEN <<d>> \o line_depths(Head(stmts).body, d + 1)
        ELSE <<d>>)
       \o line_depths(Tail(stmts), d)

\* C20: in the text of PythonGenerator every line of a statement at nesting
\* depth d is indented by d units of four spaces; a statement inside a loop
\* inside a function stands deeper than the header of the loop.
C20_IndentedByDepth ==
  (pc = "returned" /\ target_lang = "python") =>
    LET lines == SelectSeq(split(output, NL), LAMBDA l : strip(l) # <<>>)
        depths == line_depths(ast.statements, 0)
    IN /\ Len(lines) = Len(depths)
       /\ \A k \in 1..Len(lines) : indent_of(lines[k]) = depths[k] * IndentUnit

\* ------------------- invocations interleaved at node-visit granularity
\*
\* Two invocations run side by side.  Here pc, source_code, source_lang,
\* target_lang, ast, output and error hold one value per invocation;
\* generator_of[r] is the generator instance invocation r renders on,
\* current_indent_level[g] the counter of instance g, and frames[r] the
\* calls invocation r has open: the locals of its parse, or one frame for
\* each ProgramNode, FunctionNode, ForLoopNode and WhileLoopNode whose visit
\* has begun and not returned.

Invocations == 1 .. 2

\* what the invocations are called with: a statement alone, a function, a
\* loop in a loop, a block without statements followed by a loose
\* statement, and the python target with and without a block
Conversions ==
  {[source_code |-> <<"x"," ","="," ","1">>, source_lang |-> "python", target_lang |-> "java"],
   [source_code |-> <<"d","e","f"," ","f","(","a",")",":","\n"," "," "," "," ","y"," ","="," ","2">>, source_lang |-> "python", target_lang |-> "java"],
   [source_code |-> <<"f","o","r"," ","(","i","n","t"," ","i"," ","="," ","0",";"," ","i"," ","<"," ","3",";"," ","i","+","+",")"," ","{","\n"," "," "," "," ","w","h","i","l","e"," ","(","x"," ","<"," ","5",")"," ","{","\n"," "," "," "," "," "," "," "," ","y"," ","="," ","i",";","\n"," "," "," "," ","}","\n","}">>,
    source_lang |-> "java", target_lang |-> "java"],
   [source_code |-> <<"v","o","i","d"," ","g","(",")"," ","{","\n","}","\n","c","o","u","t"," ","<","<"," ","x",";">>, source_lang |-> "cpp", target_lang |-> "java"],
   [source_code |-> <<"f","(","x",")">>, source_lang |-> "python", target_lang |-> "python"],
   [source_code |-> <<"w","h","i","l","e"," ","(","x"," ","<"," ","5",")"," ","{","\n"," "," "," "," ","x"," ","="," ","1",";","\n","}">>, source_lang |-> "cpp", target_lang |-> "python"]}

\* the while loop of the parser of a source key over the lines of a call
statements_of(lang, lines) ==
  IF lang = "python" THEN py_statements(lines, 1)
  ELSE IF lang = "java" THEN java_statements(lines, 1)
  ELSE cpp_statements(lines, 1)

\* a parser is entered: statements = [], lines = code.strip().split('\n'),
\* i = 0 are locals of the call
ParseCall(r) ==
  /\ pc[r] = "start"
  /\ frames' = [frames EXCEPT ![r] = <<[lines |-> code_lines(source_code[r])]>>]
  /\ pc' = [pc EXCEPT ![r] = "parsing"]
  /\ UNCHANGED <<source_code, source_lang, target_lang, ast, output, error, calls,
                 current_indent_level, generator_of>>

\* ParseReturn of a parser that kept the lines of a call in a field of one
\* shared instance: the loop runs over the lines of the call entered last
ParseReturn_lines_kept(r) ==
  /\ pc[r] = "parsing"
  /\ ast' = [ast EXCEPT
               ![r] = ProgramNode(statements_of(
                        source_lang[r],
                        frames[CHOOSE q \in Invocations :
                                 /\ pc[q] = "parsing"
                                 /\ \A p \in Invocations : pc[p] = "parsing" => p <= q][1].lines))]
  /\ frames' = [frames EXCEPT ![r] = <<>>]
  /\ pc' = [pc EXCEPT ![r] = "parsed"]
  /\ UNCHANGED <<source_code, source_lang, target_lang, output, error, calls,
                 current_indent_level, generator_of>>

\* the parser runs its loop over its lines and returns ProgramNode(statements)
ParseReturn(r) ==
  /\ pc[r] = "parsing"
  /\ ast' = [ast EXCEPT ![r] = ProgramNode(statements_of(source_lang[r], frames[r][1].lines))]
  /\ frames' = [frames EXCEPT ![r] = <<>>]
  /\ pc' = [pc EXCEPT ![r] = "parsed"]
  /\ UNCHANGED <<source_code, source_lang, target_lang, output, error, calls,
                 current_indent_level, generator_of>>

\* convert_code as it would be with one generator kept for every call
new_generator_kept(r) == 1

\* generator = PythonGenerator() / JavaGenerator(): an instance of its own
\* for the call
new_generator(r) == r

\* convert_code builds its generator; BaseGenerator.__init__ sets the counter
Construct(r) ==
  /\ pc[r] = "parsed"
  /\ generator_of' = [generator_of EXCEPT ![r] = new_generator(r)]
  /\ current_indent_level' =
       [current_indent_level EXCEPT ![new_generator(r)] = initial_indent_level]
  /\ pc' = [pc EXCEPT ![r] = "ready"]
  /\ UNCHANGED <<source_code, source_lang, target_lang, ast, output, error, calls, frames>>

\* a caller hands the invocation the instance another invocation uses too
TakeShared(r) ==
  /\ pc[r] = "parsed"
  /\ generator_of' = [generator_of EXCEPT ![r] = 1]
  /\ pc' = [pc EXCEPT ![r] = "ready"]
  /\ UNCHANGED <<source_code, source_lang, target_lang, ast, output, error, calls,
                 current_indent_level, frames>>

\* PythonGenerator.visit(ast): no rule of PythonGenerator reads or writes
\* current_indent_level
RenderPython(r) ==
  /\ pc[r] = "ready"
  /\ target_lang[r] = "python"
  /\ IF py_raises(ast[r])
     THEN /\ error' = [error EXCEPT ![r] = "NameError: name 'FunctionCallNode' is not defined"]
          /\ pc' = [pc EXCEPT ![r] = "raised"]
          /\ UNCHANGED output
     ELSE /\ output' = [output EXCEPT ![r] = py_visit(ast[r])]
          /\ pc' = [pc EXCEPT ![r] = "returned"]
          /\ UNCHANGED error
  /\ UNCHANGED <<source_code, source_lang, target_lang, ast, calls, render_vars>>

\* the statements a frame's node holds
body_of(node) == IF node.type = "ProgramNode" THEN node.statements ELSE node.body

Frame(node, header) == [node |-> node, header |-> header, k |-> 1, texts |-> <<>>]

\* the innermost open visit of an invocation
Top(r) == frames[r][Len(frames[r])]

\* the frames once the innermost visit has the text of its next statement
Rendered(fs, text) ==
  [fs EXCEPT ![Len(fs)] = [fs[Len(fs)] EXCEPT !.texts = Append(fs[Len(fs)].texts, text),
                                               !.k = fs[Len(fs)].k + 1]]

\* JavaGenerator.visit(ast) enters visit_ProgramNode: two empty lists
BeginProgram(r) ==
  /\ pc[r] = "ready"
  /\ target_lang[r] = "java"
  /\ frames' = [frames EXCEPT ![r] = <<Frame(ast[r], <<>>)>>]
  /\ pc' = [pc EXCEPT ![r] = "visiting"]
  /\ UNCHANGED <<source_code, source_lang, target_lang, ast, output, error, calls,
                 current_indent_level, generator_of>>

\* the statement the innermost open visit renders next
next_statement(r) == body_of(Top(r).node)[Top(r).k]

\* self.current_indent_level of the instance an invocation renders on
counter(r) == current_indent_level[generator_of[r]]

\* visit_FunctionNode, visit_ForLoopNode, visit_WhileLoopNode up to the body:
\* the header at the counter's value, then current_indent_level += 1
EnterBlock(r) ==
  /\ pc[r] = "visiting"
  /\ Top(r).k <= Len(body_of(Top(r).node))
  /\ IsBlockNode(next_statement(r))
  /\ current_indent_level' =
       [current_indent_level EXCEPT
          ![generator_of[r]] = java_header(next_statement(r), counter(r)).level + 1]
  /\ frames' = [frames EXCEPT
                  ![r] = Append(frames[r],
                                Frame(next_statement(r),
                                      java_header(next_statement(r), counter(r)).text))]
  /\ UNCHANGED <<pc, source_code, source_lang, target_lang, ast, output, error, calls,
                 generator_of>>

\* self.visit(stmt) for a statement that opens no body
VisitStatement(r) ==
  /\ pc[r] = "visiting"
  /\ Top(r).k <= Len(body_of(Top(r).node))
  /\ ~IsBlockNode(next_statement(r))
  /\ current_indent_level' =
       [current_indent_level EXCEPT
          ![generator_of[r]] = visit("java", next_statement(r), counter(r)).level]
  /\ frames' = [frames EXCEPT
                  ![r] = Rendered(frames[r], visit("java", next_statement(r), counter(r)).text)]
  /\ UNCHANGED <<pc, source_code, source_lang, target_lang, ast, output, error, calls,
                 generator_of>>

\* ExitBlock of a generator that never lowers its counter
ExitBlock_counter_kept(r) ==
  /\ pc[r] = "visiting"
  /\ Len(frames[r]) > 1
  /\ Top(r).k > Len(body_of(Top(r).node))
  /\ frames' = [frames EXCEPT
                  ![r] = Rendered(SubSeq(frames[r], 1, Len(frames[r]) - 1),
                                  java_close(Top(r).header, Top(r).texts, counter(r)))]
  /\ UNCHANGED <<pc, source_code, source_lang, target_lang, ast, output, error, calls,
                 generator_of, current_indent_level>>

\* visit_FunctionNode, visit_ForLoopNode, visit_WhileLoopNode after the body:
\* the "// Empty body" line at the counter's value, current_indent_level -= 1,
\* the closing brace at the new value; the text goes to the enclosing visit
ExitBlock(r) ==
  /\ pc[r] = "visiting"
  /\ Len(frames[r]) > 1
  /\ Top(r).k > Len(body_of(Top(r).node))
  /\ current_indent_level' =
       [current_indent_level EXCEPT ![generator_of[r]] = counter(r) - 1]
  /\ frames' = [frames EXCEPT
                  ![r] = Rendered(SubSeq(frames[r], 1, Len(frames[r]) - 1),
                                  java_close(Top(r).header, Top(r).texts, counter(r)))]
  /\ UNCHANGED <<pc, source_code, source_lang, target_lang, ast, output, error, calls,
                 generator_of>>

\* visit_ProgramNode after its loop: current_indent_level = 1, the entry
\* point, current_indent_level = 0, the class; convert_code returns the text
ReturnProgram(r) ==
  /\ pc[r] = "visiting"
  /\ Len(frames[r]) = 1
  /\ Top(r).k > Len(body_of(Top(r).node))
  /\ output' = [output EXCEPT ![r] = java_class(ast[r].statements, Top(r).texts)]
  /\ current_indent_level' = [current_indent_level EXCEPT ![generator_of[r]] = 0]
  /\ frames' = [frames EXCEPT ![r] = <<>>]
  /\ pc' = [pc EXCEPT ![r] = "returned"]
  /\ UNCHANGED <<source_code, source_lang, target_lang, ast, error, calls, generator_of>>

\* two calls of convert_code, each about to start
ConvertInit ==
  /\ \E c \in [Invocations -> Conversions] :
       /\ source_code = [r \in Invocations |-> c[r].source_code]
       /\ source_lang = [r \in Invocations |-> c[r].source_lang]
       /\ target_lang = [r \in Invocations |-> c[r].target_lang]
  /\ pc = [r \in Invocations |-> "start"]
  /\ ast = [r \in Invocations |-> NoNode]
  /\ output = [r \in Invocations |-> NoText]
  /\ error = [r \in Invocations |-> ""]
  /\ calls = <<>>
  /\ generator_of = [r \in Invocations |-> 0]
  /\ current_indent_level = [g \in Invocations |-> initial_indent_level]
  /\ frames = [r \in Invocations |-> <<>>]

ConvertNext ==
  \E r \in Invocations :
    \/ ParseCall(r)
    \/ ParseReturn(r)
    \/ Construct(r)
    \/ RenderPython(r)
    \/ BeginProgram(r)
    \/ EnterBlock(r)
    \/ VisitStatement(r)
    \/ ExitBlock(r)
    \/ ReturnProgram(r)

\* convert_code called twice, the calls interleaved
SpecConvert == ConvertInit /\ [][ConvertNext]_vars

SharedNext ==
  \E r \in Invocations :
    \/ ParseCall(r)
    \/ ParseReturn(r)
    \/ TakeShared(r)
    \/ BeginProgram(r)
    \/ EnterBlock(r)
    \/ VisitStatement(r)
    \/ ExitBlock(r)
    \/ ReturnProgram(r)

\* two invocations that parse and render side by side on one JavaGenerator
SharedInit ==
  /\ ConvertInit
  /\ \A r \in Invocations : target_lang[r] = "java"

SpecShared == SharedInit /\ [][SharedNext]_vars

\* ------------------------------------------------ C17: the depth counter

\* C17: in a JavaGenerator built with the initial level 0 the counter is never
\* negative; while a Function, ForLoop or WhileLoop node's body is rendered
\* the counter is one above its value before the node and it is back at
\* that value after the node, so that at every point of a rendering it is
\* the number of bodies that are open; it is 0 before the rendering of a
\* Program and 0 when that rendering returns.
C17_CounterIsOpenBlocks ==
  /\ \A g \in DOMAIN current_indent_level : current_indent_level[g] >= 0
  /\ \A r \in Invocations :
       /\ pc[r] = "visiting" => counter(r) = Len(frames[r]) - 1
       /\ pc[r] \in {"ready", "returned"} => counter(r) = initial_indent_level

\* a JavaGenerator is rendering the body of a loop that stands in the body
\* of a loop: the counter has been raised twice
C17_Witness ==
  \E r \in Invocations :
    /\ pc[r] = "visiting"
    /\ target_lang[r] = "java"
    /\ Len(frames[r]) = 3
    /\ Top(r).node.type = "WhileLoopNode"
    /\ counter(r) = 2

\* -------------------------------------- C12: a conversion and its inputs

\* convert_code called alone: how it ends and the text it returns
convert_code(code, source, target) ==
  IF select_generator(target) = "PythonGenerator"
  THEN (IF py_raises(parse(source, code))
        THEN [pc |-> "raised", output |-> NoText]
        ELSE [pc |-> "returned", output |-> py_visit(parse(source, code))])
  ELSE [pc |-> "returned",
        output |-> visit("java", parse(source, code), initial_indent_level).text]

\* the invocation has returned or raised
Ended(r) == pc[r] \in {"returned", "raised"}

SameInputs(r, q) ==
  /\ source_code[r] = source_code[q]
  /\ source_lang[r] = source_lang[q]
  /\ target_lang[r] = target_lang[q]

\* C12: a call of convert_code that runs before, after or interleaved with
\* another call, each call with its own parser call and generator instance,
\* ends as it ends when it runs alone and returns the same text; so two
\* calls with the same source text, source key and target key return the
\* same text.
C12_TextDependsOnInputsOnly ==
  /\ \A r \in Invocations :
       Ended(r) => [pc |-> pc[r], output |-> output[r]]
                     = convert_code(source_code[r], source_lang[r], target_lang[r])
  /\ \A r, q \in Invocations :
       (Ended(r) /\ Ended(q) /\ SameInputs(r, q)) => (pc[r] = pc[q] /\ output[r] = output[q])

\* the second call has returned the text of a program with a block while
\* the first call, which has the same three inputs, is inside that block
C12_Witness ==
  /\ SameInputs(1, 2)
  /\ pc[2] = "returned"
  /\ target_lang[2] = "java"
  /\ pc[1] = "visiting"
  /\ Len(frames[1]) > 1
  /\ counter(1) = 1

\* ------------------------------------------- C16: one instance, two uses

\* the text an invocation has returned is not the text the same rendering
\* returns alone: a line of it stands at another indentation
EmitsDifferently(r) ==
  /\ pc[r] = "returned"
  /\ output[r] # convert_code(source_code[r], source_lang[r], target_lang[r]).output

\* the tree an invocation's parse has returned is not the one the same parse
\* returns alone
ParsesDifferently(r) ==
  /\ pc[r] \notin {"start", "parsing"}
  /\ ast[r] # parse(source_lang[r], source_code[r])

terminated_literal(line) ==
  IF BRACE_ASSIGNMENT_REGEX(line).ok /\ endswith(BRACE_ASSIGNMENT_REGEX(line).g2, <<";">>)
  THEN SubSeq(BRACE_ASSIGNMENT_REGEX(line).g2, 1, Len(BRACE_ASSIGNMENT_REGEX(line).g2) - 1)
  ELSE <<>>

\* the statement a tree holds for a terminated assignment of a number
NumberAssignment(line) ==
  AssignmentNode(VariableNode(BRACE_ASSIGNMENT_REGEX(line).g1),
                 NumberLiteralNode(terminated_literal(line)))

\* C21: parse_java and parse_cpp keep the terminator `;` of a line out of the
\* tree: every top-level line `int x = <lit>;` with a number literal is held
\* as Assignment(x, NumberLiteral(<lit>)), and JavaGenerator writes no
\* statement with two semicolons.
C21_TerminatorNotInTree ==
  (source_lang \in {"java", "cpp"} /\ pc \in {"parsed", "returned"}) =>
    /\ \A k \in 1..Len(split(source_code, NL)) :
         is_number(terminated_literal(split(source_code, NL)[k]))
           => \E j \in 1..Len(ast.statements) :
                ast.statements[j] = NumberAssignment(split(source_code, NL)[k])
    /\ (pc = "returned" /\ target_lang = "java") => ~contains(output, <<";", ";">>)

\* ------------------------------------ C22: the header of a rendered loop

\* `for <iterator> in <iterable>:`
for_header(iterator, iterable) ==
  <<"f","o","r"," ">> \o iterator \o <<" ","i","n"," ">> \o iterable \o <<":">>

\* some line of a text is the header, indentation aside
HasHeader(text, header) ==
  \E k \in 1..Len(split(text, NL)) : strip(split(text, NL)[k]) = header

\* C22: PythonGenerator writes the header of every ForLoop with the source
\* text of its iterable, whichever parser built the loop: a loop read by
\* parse_python from `for i in <iterable>:` and a loop parse_java or
\* parse_cpp built with a range descriptor both come out as
\* `for i in <iterable>:`.
C22_HeaderHoldsIterableText ==
  (pc = "returned" /\ target_lang = "python") =>
    /\ source_lang = "python" =>
         \A k \in 1..Len(split(source_code, NL)) :
           PY_FOR_LOOP_REGEX(strip(split(source_code, NL)[k])).ok =>
             HasHeader(output,
                       for_header(PY_FOR_LOOP_REGEX(strip(split(source_code, NL)[k])).g1,
                                  PY_FOR_LOOP_REGEX(strip(split(source_code, NL)[k])).g2))
    /\ source_lang \in {"java", "cpp"} =>
         \A j \in 1..Len(ast.statements) :
           (ast.statements[j].type = "ForLoopNode" /\ ast.statements[j].iterable.type = "str") =>
             HasHeader(output, for_header(ast.statements[j].iterator,
                                          ast.statements[j].iterable.value))

====
